---- MODULE Spec2Model ----
(***************************************************************************)
(* Hardware abstraction and telemetry subsystem of the smart-home backend: *)
(* the domain entities (command encoding, control law, emergency test),    *)
(* the telemetry line decoder of the serial controller, the simulated      *)
(* controller with its environment, and the controller factory.            *)
(*                                                                         *)
(* Floating-point quantities are kept as integers in hundredths            *)
(* (temperature 24.0 is 2400); integer fields are kept as they are.        *)
(***************************************************************************)
EXTENDS Integers, Sequences, FiniteSets, TLC

VARIABLES
    arg,          \* pure functions: the value the function is applied to
    result,       \* pure functions: what the call produced
    env,          \* SimulatedHardwareController._env
    sim_running,  \* SimulatedHardwareController._running
    sim_loop,     \* number of _simulation_loop tasks still alive
    sim_ticks,    \* loop iterations taken so far
    sim_call,     \* the last operation of the controller or of its loop
    sim_ret,      \* what that operation returned
    world,        \* factory: what the serial library will do
    fac_pc,       \* factory: position of create()
    fac_req,      \* factory: arguments of create()
    fac_ctrl,     \* factory: the controller create() returned
    fac_exc,      \* factory: the exception that escaped create()
    fac_log,      \* factory: controllers constructed and initialised, in order
    phy_ctrl,     \* the SerialHardwareController: port, link, _running, reader tasks
    phy_latest,   \* SerialHardwareController._latest_telemetry
    phy_reader,   \* position of each _telemetry_reader_loop task
    phy_clock,    \* datetime.utcnow(), in whole seconds
    phy_call,     \* the send_command or set_auto_mode call in progress
    phy_ret,      \* the last completed call of the controller and its outcome
    phy_hist      \* history: last decoded snapshot, last commanded auto mode,
                  \* last access to the telemetry slot, whether shutdown()
                  \* was ever called, how the last readline ended

vars == <<arg, result, env, sim_running, sim_loop, sim_ticks, sim_call, sim_ret,
          world, fac_pc, fac_req, fac_ctrl, fac_exc, fac_log,
          phy_ctrl, phy_latest, phy_reader, phy_clock, phy_call, phy_ret, phy_hist>>

pure_vars == <<arg, result>>
sim_vars == <<env, sim_running, sim_loop, sim_ticks, sim_call, sim_ret>>
fac_vars == <<world, fac_pc, fac_req, fac_ctrl, fac_exc, fac_log>>
phy_vars == <<phy_ctrl, phy_latest, phy_reader, phy_clock, phy_call, phy_ret, phy_hist>>

\* Optional values: None is the empty tuple, a present value x is Some(x).
None == <<>>
Some(x) == <<x>>
NoExc == "none"

----------------------------------------------------------------------------
(* domain/entities.py                                                      *)

NIGHT_LED == "night_led"
GARAGE_DOOR == "garage_door"
MOTION_SENSOR == "motion_sensor"
RAIN_SENSOR == "rain_sensor"
CLOTHES_SERVO == "clothes_servo"
WATER_PUMP == "water_pump"
FLAME_SENSOR == "flame_sensor"
SMOKE_SENSOR == "smoke_sensor"
DHT_SENSOR == "dht_sensor"

DeviceType ==
    {NIGHT_LED, GARAGE_DOOR, MOTION_SENSOR, RAIN_SENSOR, CLOTHES_SERVO,
     WATER_PUMP, FLAME_SENSOR, SMOKE_SENSOR, DHT_SENSOR}

ON == "on"
OFF == "off"
OPEN == "open"
CLOSED == "closed"
DETECTED == "detected"
NOT_DETECTED == "not_detected"

DeviceState == {ON, OFF, OPEN, CLOSED, DETECTED, NOT_DETECTED}

AUTO == "auto"
ARDUINO == "arduino"
SIMULATION == "simulation"

RuntimeMode == {AUTO, ARDUINO, SIMULATION}

\* Timestamps the clock can hand out.
Times == {1, 2}

DeviceCommand(device_type, state, timestamp, manual_override) ==
    [kind |-> "DeviceCommand", device_type |-> device_type, state |-> state,
     timestamp |-> timestamp, manual_override |-> manual_override]

AutoModeCommand(enabled, timestamp) ==
    [kind |-> "AutoModeCommand", enabled |-> enabled, timestamp |-> timestamp]

\* A call either returns a value or raises.
Return(v) == [exc |-> NoExc, val |-> Some(v)]
Raise(e) == [exc |-> e, val |-> None]

\* command_map of DeviceCommand.to_arduino_format: device -> (letter, is_active)
command_map(self) ==
    [d \in {NIGHT_LED, GARAGE_DOOR, WATER_PUMP, CLOTHES_SERVO} |->
        CASE d = NIGHT_LED -> <<"L", self.state = ON>>
          [] d = GARAGE_DOOR -> <<"G", self.state = OPEN>>
          [] d = WATER_PUMP -> <<"P", self.state = ON>>
          [] d = CLOTHES_SERVO -> <<"C", self.state = OPEN>>]

\* An encoder without the membership test: an unmapped device takes the
\* first entry of the map.
to_arduino_format_no_check(self) ==
    LET m == command_map(self)
        d == IF self.device_type \in DOMAIN m THEN self.device_type ELSE NIGHT_LED
    IN  Return(m[d][1] \o (IF m[d][2] THEN "1" ELSE "0"))

\* DeviceCommand.to_arduino_format
to_arduino_format(self) ==
    LET m == command_map(self)
    IN  IF self.device_type \notin DOMAIN m
        THEN Raise("ValueError")
        ELSE Return(m[self.device_type][1]
                    \o (IF m[self.device_type][2] THEN "1" ELSE "0"))

\* AutoModeCommand.to_arduino_format
auto_to_arduino_format(self) ==
    Return("A" \o (IF self.enabled THEN "1" ELSE "0"))

\* A validation whose humidity range leaves out its upper end.
post_init_ok_strict(s) ==
    /\ 0 <= s.ldr_value /\ s.ldr_value <= 1023
    /\ 0 <= s.humidity /\ s.humidity < 10000
    /\ ~(s.temperature < -4000 \/ s.temperature > 8000)

\* TelemetrySnapshot.__post_init__: TRUE when construction succeeds.
post_init_ok(s) ==
    /\ 0 <= s.ldr_value /\ s.ldr_value <= 1023
    /\ 0 <= s.humidity /\ s.humidity <= 10000
    /\ ~(s.temperature < -4000 \/ s.temperature > 8000)

TelemetrySnapshot(s) ==
    LET self == [kind |-> "TelemetrySnapshot"] @@ s
    IN  IF post_init_ok(self) THEN Return(self) ELSE Raise("ValueError")

\* A control law whose pump rule joins its two conditions with "or".
evaluate_auto_mode_logic_pump_or(self, now) ==
    IF ~self.auto_mode THEN <<>>
    ELSE <<DeviceCommand(NIGHT_LED,
                (IF self.ldr_value > 500 THEN ON ELSE OFF), now, FALSE),
           DeviceCommand(GARAGE_DOOR,
                (IF 5 <= self.garage_distance /\ self.garage_distance <= 15
                 THEN OPEN ELSE CLOSED), now, FALSE),
           DeviceCommand(CLOTHES_SERVO,
                (IF self.rain_detected THEN CLOSED ELSE OPEN), now, FALSE),
           DeviceCommand(WATER_PUMP,
                (IF (1 <= self.water_level /\ self.water_level <= 5)
                    \/ self.soil_moisture > 900
                 THEN ON ELSE OFF), now, FALSE)>>

\* TelemetrySnapshot.evaluate_auto_mode_logic; now is datetime.utcnow().
evaluate_auto_mode_logic(self, now) ==
    IF ~self.auto_mode THEN <<>>
    ELSE <<DeviceCommand(NIGHT_LED,
                (IF self.ldr_value > 500 THEN ON ELSE OFF), now, FALSE),
           DeviceCommand(GARAGE_DOOR,
                (IF 5 <= self.garage_distance /\ self.garage_distance <= 15
                 THEN OPEN ELSE CLOSED), now, FALSE),
           DeviceCommand(CLOTHES_SERVO,
                (IF self.rain_detected THEN CLOSED ELSE OPEN), now, FALSE),
           DeviceCommand(WATER_PUMP,
                (IF (1 <= self.water_level /\ self.water_level <= 5)
                    /\ self.soil_moisture > 900
                 THEN ON ELSE OFF), now, FALSE)>>

\* An emergency test with a non-strict smoke threshold.
has_emergency_ge(self) ==
    self.flame_detected \/ self.smoke_level >= 150

\* TelemetrySnapshot.has_emergency
has_emergency(self) ==
    self.flame_detected \/ self.smoke_level > 150

----------------------------------------------------------------------------
(* infrastructure/serial_controller.py: the telemetry line decoder.        *)
(* A line is a tuple of one-character strings.  The eleven patterns of     *)
(* _parse_telemetry are kept as data and run by a small matcher: literals, *)
(* greedy \s* and \d+ / [\d.]+ runs, and a two-way alternation.  Adjacent   *)
(* pattern elements never accept the same character, so the greedy match   *)
(* is the match re.search finds.                                           *)

Digit == {"0", "1", "2", "3", "4", "5", "6", "7", "8", "9"}
DigitOrDot == Digit \cup {"."}
Space == {" ", "\t"}

DigitVal ==
    [c \in Digit |->
        CASE c = "0" -> 0 [] c = "1" -> 1 [] c = "2" -> 2 [] c = "3" -> 3
          [] c = "4" -> 4 [] c = "5" -> 5 [] c = "6" -> 6 [] c = "7" -> 7
          [] c = "8" -> 8 [] c = "9" -> 9]

Lit(s) == [t |-> "lit", s |-> <<s>>, cls |-> {}]
Star(cls) == [t |-> "star", s |-> <<>>, cls |-> cls]
PlusGroup(cls) == [t |-> "plus", s |-> <<>>, cls |-> cls]
AltGroup(a, b) == [t |-> "alt", s |-> <<a, b>>, cls |-> {}]

lit_LDR == <<"L","D","R",":">>
lit_GarageDist == <<"G","a","r","a","g","e"," ","D","i","s","t",":">>
lit_cm == <<"c","m">>
lit_MotionYes == <<"M","o","t","i","o","n","!">>
lit_NoMotion == <<"N","o"," ","M","o","t","i","o","n">>
lit_RainYes == <<"R","a","i","n","!">>
lit_NoRain == <<"N","o"," ","R","a","i","n">>
lit_WaterLvl == <<"W","a","t","e","r"," ","L","v","l",":">>
lit_Soil == <<"S","o","i","l",":">>
lit_Pump == <<"P","u","m","p"," ">>
lit_ON == <<"O","N">>
lit_OFF == <<"O","F","F">>
lit_Flame == <<"F","l","a","m","e",":">>
lit_YES == <<"Y","E","S">>
lit_NO == <<"N","O">>
lit_Smoke == <<"S","m","o","k","e",":">>
lit_Temp == <<"T","e","m","p",":">>
lit_C == <<"C">>
lit_Hum == <<"H","u","m",":">>
lit_pct == <<"%">>

\* A light-level pattern that has lost its label: a colon, then digits.
ldr_re_any_label == <<Lit(<<":">>), Star(Space), PlusGroup(Digit)>>

ldr_re == <<Lit(lit_LDR), Star(Space), PlusGroup(Digit)>>
garage_re == <<Lit(lit_GarageDist), Star(Space), PlusGroup(Digit), Star(Space), Lit(lit_cm)>>
motion_re == <<AltGroup(lit_MotionYes, lit_NoMotion)>>
rain_re == <<AltGroup(lit_RainYes, lit_NoRain)>>
water_re == <<Lit(lit_WaterLvl), Star(Space), PlusGroup(Digit), Star(Space), Lit(lit_cm)>>
soil_re == <<Lit(lit_Soil), Star(Space), PlusGroup(Digit)>>
pump_re == <<Lit(lit_Pump), AltGroup(lit_ON, lit_OFF)>>
flame_re == <<Lit(lit_Flame), Star(Space), AltGroup(lit_YES, lit_NO)>>
smoke_re == <<Lit(lit_Smoke), Star(Space), PlusGroup(Digit)>>
temp_re == <<Lit(lit_Temp), Star(Space), PlusGroup(DigitOrDot), Star(Space), Lit(lit_C)>>
hum_re == <<Lit(lit_Hum), Star(Space), PlusGroup(DigitOrDot), Lit(lit_pct)>>

\* A match object: found, and the text of group 1.
NoMatch == [found |-> FALSE, g1 |-> <<>>]

StartsWith(line, i, lit) ==
    /\ i + Len(lit) - 1 <= Len(line)
    /\ \A k \in 1..Len(lit) : line[i + k - 1] = lit[k]

RECURSIVE RunEnd(_, _, _)
\* First position at or after i whose character is outside cls.
RunEnd(line, i, cls) ==
    IF i <= Len(line) /\ line[i] \in cls THEN RunEnd(line, i + 1, cls) ELSE i

RECURSIVE MatchAt(_, _, _, _, _)
\* Match elements k.. of pattern re against line at position i.
MatchAt(re, k, line, i, g1) ==
    IF k > Len(re) THEN [found |-> TRUE, g1 |-> g1]
    ELSE LET e == re[k] IN
      CASE e.t = "lit" ->
             IF StartsWith(line, i, e.s[1])
             THEN MatchAt(re, k + 1, line, i + Len(e.s[1]), g1)
             ELSE NoMatch
        [] e.t = "star" -> MatchAt(re, k + 1, line, RunEnd(line, i, e.cls), g1)
        [] e.t = "plus" ->
             LET j == RunEnd(line, i, e.cls)
             IN  IF j = i THEN NoMatch
                 ELSE MatchAt(re, k + 1, line, j, SubSeq(line, i, j - 1))
        [] e.t = "alt" ->
             IF StartsWith(line, i, e.s[1])
             THEN MatchAt(re, k + 1, line, i + Len(e.s[1]), e.s[1])
             ELSE IF StartsWith(line, i, e.s[2])
             THEN MatchAt(re, k + 1, line, i + Len(e.s[2]), e.s[2])
             ELSE NoMatch

\* re.search: the match at the leftmost position that has one.
re_search(re, line) ==
    LET hits == {i \in 1..(Len(line) + 1) : MatchAt(re, 1, line, i, <<>>).found}
    IN  IF hits = {} THEN NoMatch
        ELSE MatchAt(re, 1, line, CHOOSE i \in hits : \A j \in hits : i <= j, <<>>)

RECURSIVE py_int(_)
\* int() of a run of decimal digits.
py_int(d) ==
    IF d = <<>> THEN 0
    ELSE 10 * py_int(SubSeq(d, 1, Len(d) - 1)) + DigitVal[d[Len(d)]]

\* float() of a run of digits and dots, in hundredths: ValueError unless the
\* run holds at most one dot and at least one digit.  Digits after the
\* second decimal place are not represented.
py_float(t) ==
    LET dots == {i \in 1..Len(t) : t[i] = "."}
        p == IF dots = {} THEN Len(t) + 1 ELSE CHOOSE i \in dots : TRUE
        whole == SubSeq(t, 1, p - 1)
        frac == SubSeq(t, p + 1, Len(t))
        frac2 == SubSeq(frac \o <<"0", "0">>, 1, 2)
    IN  IF Cardinality(dots) > 1 \/ Len(t) - Cardinality(dots) = 0
        THEN Raise("ValueError")
        ELSE Return(100 * py_int(whole) + py_int(frac2))

\* m.group(1): AttributeError when the match is None.
group1(m) == IF m.found THEN Return(m.g1) ELSE Raise("AttributeError")

Matches(line) ==
    [ldr |-> re_search(ldr_re, line), garage |-> re_search(garage_re, line),
     motion |-> re_search(motion_re, line), rain |-> re_search(rain_re, line),
     water |-> re_search(water_re, line), soil |-> re_search(soil_re, line),
     pump |-> re_search(pump_re, line), flame |-> re_search(flame_re, line),
     smoke |-> re_search(smoke_re, line), temp |-> re_search(temp_re, line),
     hum |-> re_search(hum_re, line)]

FieldNames ==
    <<"ldr", "garage", "motion", "rain", "water", "soil", "pump", "flame",
      "smoke", "temp", "hum">>

Fields == {FieldNames[i] : i \in DOMAIN FieldNames}

\* The return statement of _parse_telemetry: the snapshot built from the
\* group texts, or the first exception raised on the way.
build_snapshot(m, now) ==
    LET raised == {f \in Fields : group1(m[f]).exc # NoExc}
        temperature == py_float(m.temp.g1)
        humidity == py_float(m.hum.g1)
    IN  IF raised # {} THEN Raise("AttributeError")
        ELSE IF temperature.exc # NoExc THEN temperature
        ELSE IF humidity.exc # NoExc THEN humidity
        ELSE TelemetrySnapshot(
               [timestamp |-> now,
                ldr_value |-> py_int(m.ldr.g1),
                garage_distance |-> py_int(m.garage.g1),
                motion_detected |-> (m.motion.g1 = lit_MotionYes),
                rain_detected |-> (m.rain.g1 = lit_RainYes),
                water_level |-> py_int(m.water.g1),
                soil_moisture |-> py_int(m.soil.g1),
                pump_active |-> (m.pump.g1 = lit_ON),
                flame_detected |-> (m.flame.g1 = lit_YES),
                smoke_level |-> py_int(m.smoke.g1),
                temperature |-> temperature.val[1],
                humidity |-> humidity.val[1],
                auto_mode |-> TRUE,
                runtime_mode |-> ARDUINO])

\* The body of the try block.
parse_try(line, now) ==
    LET m == Matches(line)
    IN  IF ~(\A f \in Fields : m[f].found) THEN Return(None)
        ELSE LET r == build_snapshot(m, now)
             IN  IF r.exc = NoExc THEN Return(r.val) ELSE r

\* A decoder that fills a default in for a numeric field it did not find.
parse_telemetry_defaulting(line, now) ==
    LET m == Matches(line)
        zero == [found |-> TRUE, g1 |-> <<"0">>]
        numeric == {"ldr", "garage", "water", "soil", "smoke", "temp", "hum"}
        filled == [f \in Fields |->
                     IF ~m[f].found /\ f \in numeric THEN zero ELSE m[f]]
        r == IF ~(\A f \in Fields : filled[f].found) THEN Return(None)
             ELSE LET b == build_snapshot(filled, now)
                  IN  IF b.exc = NoExc THEN Return(b.val) ELSE b
    IN  IF r.exc \in {"ValueError", "AttributeError"} THEN Return(None) ELSE r

\* _parse_telemetry: Some(snapshot), or None; the except clause turns
\* ValueError and AttributeError into None.
parse_telemetry(line, now) ==
    LET r == parse_try(line, now)
    IN  IF r.exc \in {"ValueError", "AttributeError"} THEN Return(None) ELSE r

----------------------------------------------------------------------------
(* infrastructure/simulation_controller.py                                 *)

Max(a, b) == IF a >= b THEN a ELSE b
Min(a, b) == IF a <= b THEN a ELSE b

\* SimulatedEnvironment.__init__
SimulatedEnvironment ==
    [ambient_light |-> 30000, garage_distance |-> 5000, has_motion |-> FALSE,
     is_raining |-> FALSE, water_level |-> 300, soil_moisture |-> 60000,
     flame_present |-> FALSE, smoke_level |-> 5000, temperature |-> 2400,
     humidity |-> 4500,
     night_led_on |-> FALSE, garage_open |-> FALSE,
     clothes_servo_open |-> TRUE, pump_on |-> FALSE,
     auto_mode |-> TRUE]

\* What the random generator and the clock hand to one loop iteration:
\* delta_time in whole seconds, the four uniform draws in hundredths, and
\* whether each of the three probability tests came out true.
Draws ==
    {[delta_time |-> 0, light |-> 0, garage |-> 0, motion |-> FALSE,
      rain |-> FALSE, fire |-> FALSE, temp |-> 0, hum |-> 0],
     [delta_time |-> 1, light |-> 2000, garage |-> -200, motion |-> TRUE,
      rain |-> TRUE, fire |-> FALSE, temp |-> 50, hum |-> 100],
     [delta_time |-> 1, light |-> -2000, garage |-> 200, motion |-> FALSE,
      rain |-> FALSE, fire |-> TRUE, temp |-> -50, hum |-> -100],
     [delta_time |-> 2, light |-> 1234, garage |-> -55, motion |-> FALSE,
      rain |-> FALSE, fire |-> FALSE, temp |-> 37, hum |-> -63]}

\* Draws at the ends of their ranges, and clocks that stood still, jumped
\* ahead or stepped back between two iterations.
EdgeDraws ==
    {[delta_time |-> 1, light |-> 2000, garage |-> 200, motion |-> TRUE,
      rain |-> TRUE, fire |-> FALSE, temp |-> 50, hum |-> 100],
     [delta_time |-> 1, light |-> -2000, garage |-> -200, motion |-> FALSE,
      rain |-> FALSE, fire |-> FALSE, temp |-> -50, hum |-> -100],
     [delta_time |-> 30, light |-> 0, garage |-> 0, motion |-> FALSE,
      rain |-> FALSE, fire |-> TRUE, temp |-> 0, hum |-> 0],
     [delta_time |-> -1, light |-> 37, garage |-> -50, motion |-> FALSE,
      rain |-> FALSE, fire |-> FALSE, temp |-> 3, hum |-> -4]}

\* An update that adds the drift and does not clamp.
update_unclamped(self, d) ==
    [self EXCEPT
       !.ambient_light = self.ambient_light + d.light,
       !.garage_distance = self.garage_distance + d.garage,
       !.has_motion = d.motion,
       !.is_raining = IF d.rain THEN ~self.is_raining ELSE self.is_raining,
       !.water_level = IF self.pump_on
                       THEN self.water_level - 10 * d.delta_time
                       ELSE self.water_level + 5 * d.delta_time,
       !.soil_moisture = IF self.pump_on
                         THEN self.soil_moisture - 1000 * d.delta_time
                         ELSE self.soil_moisture + 500 * d.delta_time,
       !.flame_present = d.fire,
       !.smoke_level = IF d.fire THEN 20000
                       ELSE Max(2000, self.smoke_level - 500 * d.delta_time),
       !.temperature = self.temperature + d.temp,
       !.humidity = self.humidity + d.hum]

\* SimulatedEnvironment.update
update(self, d) ==
    [self EXCEPT
       !.ambient_light = Max(0, Min(102300, self.ambient_light + d.light)),
       !.garage_distance = Max(100, Min(10000, self.garage_distance + d.garage)),
       !.has_motion = d.motion,
       !.is_raining = IF d.rain THEN ~self.is_raining ELSE self.is_raining,
       !.water_level =
           Max(0, Min(2000, IF self.pump_on
                            THEN self.water_level - 10 * d.delta_time
                            ELSE self.water_level + 5 * d.delta_time)),
       !.soil_moisture =
           Max(0, Min(102300, IF self.pump_on
                              THEN self.soil_moisture - 1000 * d.delta_time
                              ELSE self.soil_moisture + 500 * d.delta_time)),
       !.flame_present = d.fire,
       !.smoke_level = IF d.fire THEN 20000
                       ELSE Max(2000, self.smoke_level - 500 * d.delta_time),
       !.temperature = Max(-1000, Min(4000, self.temperature + d.temp)),
       !.humidity = Max(0, Min(10000, self.humidity + d.hum))]

\* An apply_auto_mode_logic that does not look at the auto-mode flag.
apply_auto_mode_logic_always(self) ==
    [self EXCEPT
       !.night_led_on = self.ambient_light > 50000,
       !.garage_open = 500 <= self.garage_distance
                       /\ self.garage_distance <= 1500,
       !.clothes_servo_open = ~self.is_raining,
       !.pump_on = (100 <= self.water_level /\ self.water_level <= 500)
                   /\ self.soil_moisture > 90000]

\* An apply_auto_mode_logic that switches the pump on and never off.
apply_auto_mode_logic_pump_latch(self) ==
    IF ~self.auto_mode THEN self
    ELSE [self EXCEPT
            !.night_led_on = self.ambient_light > 50000,
            !.garage_open = 500 <= self.garage_distance
                            /\ self.garage_distance <= 1500,
            !.clothes_servo_open = ~self.is_raining,
            !.pump_on = self.pump_on
                        \/ ((100 <= self.water_level /\ self.water_level <= 500)
                            /\ self.soil_moisture > 90000)]

\* SimulatedEnvironment.apply_auto_mode_logic
apply_auto_mode_logic(self) ==
    IF ~self.auto_mode THEN self
    ELSE [self EXCEPT
            !.night_led_on = self.ambient_light > 50000,
            !.garage_open = 500 <= self.garage_distance
                            /\ self.garage_distance <= 1500,
            !.clothes_servo_open = ~self.is_raining,
            !.pump_on = (100 <= self.water_level /\ self.water_level <= 500)
                        /\ self.soil_moisture > 90000]

\* int() of a non-negative quantity kept in hundredths.
trunc(x) == x \div 100

\* round(x, 1) of a quantity kept in hundredths: the nearest tenth, a tie
\* going to the even tenth.
round1(x) ==
    LET lo == (x \div 10) * 10
        r == x - lo
    IN  IF r < 5 THEN lo
        ELSE IF r > 5 THEN lo + 10
        ELSE IF (lo \div 10) % 2 = 0 THEN lo ELSE lo + 10

\* A send_command that forgets the auto-mode test.
send_command_unguarded(e, command) ==
    [ret |-> TRUE,
     env |-> CASE command.device_type = NIGHT_LED ->
                    [e EXCEPT !.night_led_on = command.state = ON]
               [] command.device_type = GARAGE_DOOR ->
                    [e EXCEPT !.garage_open = command.state = OPEN]
               [] command.device_type = CLOTHES_SERVO ->
                    [e EXCEPT !.clothes_servo_open = command.state = OPEN]
               [] command.device_type = WATER_PUMP ->
                    [e EXCEPT !.pump_on = command.state = ON]
               [] OTHER -> e]

\* SimulatedHardwareController.send_command on environment e: the value
\* returned and the environment it leaves.
send_command(e, command) ==
    IF e.auto_mode /\ ~command.manual_override
    THEN [ret |-> FALSE, env |-> e]
    ELSE [ret |-> TRUE,
          env |-> CASE command.device_type = NIGHT_LED ->
                         [e EXCEPT !.night_led_on = command.state = ON]
                    [] command.device_type = GARAGE_DOOR ->
                         [e EXCEPT !.garage_open = command.state = OPEN]
                    [] command.device_type = CLOTHES_SERVO ->
                         [e EXCEPT !.clothes_servo_open = command.state = OPEN]
                    [] command.device_type = WATER_PUMP ->
                         [e EXCEPT !.pump_on = command.state = ON]
                    [] OTHER -> e]

\* A set_auto_mode that flips the flag whatever the command says.
set_auto_mode_toggle(e, command) ==
    [ret |-> TRUE, env |-> [e EXCEPT !.auto_mode = ~e.auto_mode]]

\* SimulatedHardwareController.set_auto_mode
set_auto_mode(e, command) ==
    [ret |-> TRUE, env |-> [e EXCEPT !.auto_mode = command.enabled]]

\* A get_telemetry that tags the snapshot with AUTO while auto mode is on.
get_telemetry_auto_tag(e, now) ==
    LET r == TelemetrySnapshot(
               [timestamp |-> now,
                ldr_value |-> trunc(e.ambient_light),
                garage_distance |-> trunc(e.garage_distance),
                motion_detected |-> e.has_motion,
                rain_detected |-> e.is_raining,
                water_level |-> trunc(e.water_level),
                soil_moisture |-> trunc(e.soil_moisture),
                pump_active |-> e.pump_on,
                flame_detected |-> e.flame_present,
                smoke_level |-> trunc(e.smoke_level),
                temperature |-> round1(e.temperature),
                humidity |-> round1(e.humidity),
                auto_mode |-> e.auto_mode,
                runtime_mode |-> IF e.auto_mode THEN AUTO ELSE SIMULATION])
    IN  IF r.exc = "ValueError" THEN None ELSE r.val

\* SimulatedHardwareController.get_telemetry: Some(snapshot), or None when
\* the snapshot's validation raises ValueError.
get_telemetry(e, now) ==
    LET r == TelemetrySnapshot(
               [timestamp |-> now,
                ldr_value |-> trunc(e.ambient_light),
                garage_distance |-> trunc(e.garage_distance),
                motion_detected |-> e.has_motion,
                rain_detected |-> e.is_raining,
                water_level |-> trunc(e.water_level),
                soil_moisture |-> trunc(e.soil_moisture),
                pump_active |-> e.pump_on,
                flame_detected |-> e.flame_present,
                smoke_level |-> trunc(e.smoke_level),
                temperature |-> round1(e.temperature),
                humidity |-> round1(e.humidity),
                auto_mode |-> e.auto_mode,
                runtime_mode |-> SIMULATION])
    IN  IF r.exc = "ValueError" THEN None ELSE r.val

\* Commands the callers hand to the simulated controller: the four actuators
\* and one sensor-only device, the four actuator states and one sensor state.
SimCommands ==
    {DeviceCommand(d, s, 1, o) :
        d \in {NIGHT_LED, GARAGE_DOOR, CLOTHES_SERVO, WATER_PUMP, MOTION_SENSOR},
        s \in {ON, OFF, OPEN, CLOSED, DETECTED},
        o \in BOOLEAN}

SimAutoCommands == {AutoModeCommand(b, 1) : b \in BOOLEAN}

MaxTicks == 1
MaxInits == 2

SimInit ==
    /\ env = SimulatedEnvironment
    /\ sim_running = FALSE
    /\ sim_loop = 0
    /\ sim_ticks = 0
    /\ sim_call = "none"
    /\ sim_ret = None

\* Environments a long run of the loop leads to: each quantity at an end of
\* its clamp, light and garage distance also a fraction above a threshold of
\* the control law, water and soil after a long time with the pump off
\* (both at their upper clamp) or on (both at zero).
EdgeEnvs ==
    {[SimulatedEnvironment EXCEPT
        !.ambient_light = l, !.garage_distance = g,
        !.water_level = ws[1], !.soil_moisture = ws[2],
        !.temperature = th[1], !.humidity = th[2]] :
        l \in {0, 50050, 102300}, g \in {100, 1550},
        ws \in {<<300, 60000>>, <<2000, 102300>>, <<0, 0>>},
        th \in {<<-1000, 0>>, <<4000, 10000>>}}

\* The commands that bear on the sensor quantities: the pump, which update()
\* reads, switched on or off, with and without manual_override.
PumpCommands ==
    {c \in SimCommands : c.device_type = WATER_PUMP /\ c.state \in {ON, OFF}}

\* The controller some time after initialize(), its loop asleep.
SimRunning ==
    /\ env \in EdgeEnvs
    /\ sim_running = TRUE
    /\ sim_loop = 1
    /\ sim_ticks = 0
    /\ sim_call = "initialize"
    /\ sim_ret = None

\* initialize(): set the flag and start one more loop task.
SimInitialize ==
    /\ sim_loop < MaxInits
    /\ sim_running' = TRUE
    /\ sim_loop' = sim_loop + 1
    /\ sim_call' = "initialize"
    /\ sim_ret' = None
    /\ UNCHANGED <<env, sim_ticks>>

SimShutdown ==
    /\ sim_running' = FALSE
    /\ sim_call' = "shutdown"
    /\ sim_ret' = None
    /\ UNCHANGED <<env, sim_loop, sim_ticks>>

SimSendCommand(command) ==
    LET r == send_command(env, command)
    IN  /\ env' = r.env
        /\ sim_call' = "send_command"
        /\ sim_ret' = Some(r.ret)
        /\ UNCHANGED <<sim_running, sim_loop, sim_ticks>>

SimSetAutoMode(command) ==
    LET r == set_auto_mode(env, command)
    IN  /\ env' = r.env
        /\ sim_call' = "set_auto_mode"
        /\ sim_ret' = Some(r.ret)
        /\ UNCHANGED <<sim_running, sim_loop, sim_ticks>>

SimGetTelemetry(now) ==
    /\ sim_call' = "get_telemetry"
    /\ sim_ret' = Some(get_telemetry(env, now))
    /\ UNCHANGED <<env, sim_running, sim_loop, sim_ticks>>

\* A health_check that is "always True", as its docstring says.
SimHealthCheckAlways ==
    /\ sim_call' = "health_check"
    /\ sim_ret' = Some(TRUE)
    /\ UNCHANGED <<env, sim_running, sim_loop, sim_ticks>>

\* health_check(): return self._running
SimHealthCheck ==
    /\ sim_call' = "health_check"
    /\ sim_ret' = Some(sim_running)
    /\ UNCHANGED <<env, sim_running, sim_loop, sim_ticks>>

\* One iteration of _simulation_loop that finds _running set: update, then
\* apply_auto_mode_logic, then sleep.
SimTick(d) ==
    /\ sim_loop > 0
    /\ sim_running
    /\ sim_ticks < MaxTicks
    /\ env' = apply_auto_mode_logic(update(env, d))
    /\ sim_ticks' = sim_ticks + 1
    /\ sim_call' = "tick"
    /\ sim_ret' = None
    /\ UNCHANGED <<sim_running, sim_loop>>

\* The same iteration in a run that does not count its iterations.
SimIterate(d) ==
    /\ sim_loop > 0
    /\ sim_running
    /\ env' = apply_auto_mode_logic(update(env, d))
    /\ sim_call' = "tick"
    /\ sim_ret' = None
    /\ UNCHANGED <<sim_running, sim_loop, sim_ticks>>

\* Seconds between two iterations of a loop whose sleeps run long.
TickSeconds == 10

\* Iterations TickSeconds apart in which no random draw moves a sensor:
\* water and soil follow the pump alone.
SteadyDraws ==
    {[delta_time |-> TickSeconds, light |-> 0, garage |-> 0, motion |-> FALSE,
      rain |-> FALSE, fire |-> FALSE, temp |-> 0, hum |-> 0]}

\* The controller right after initialize(), its loop asleep.
SimStarted ==
    /\ env = SimulatedEnvironment
    /\ sim_running = TRUE
    /\ sim_loop = 1
    /\ sim_ticks = 0
    /\ sim_call = "initialize"
    /\ sim_ret = None

\* An iteration that finds _running cleared: the loop task ends.
SimLoopStop ==
    /\ sim_loop > 0
    /\ ~sim_running
    /\ sim_loop' = sim_loop - 1
    /\ sim_call' = "loop_stopped"
    /\ sim_ret' = None
    /\ UNCHANGED <<env, sim_running, sim_ticks>>

----------------------------------------------------------------------------
(* infrastructure/serial_controller.py: initialize, and                     *)
(* infrastructure/hardware_factory.py.                                      *)
(* The serial library is outside the repository: what list_ports.comports  *)
(* reports and whether Serial() and the two buffer resets succeed, raise   *)
(* SerialException or raise some other error (ValueError for a parameter   *)
(* out of range, termios.error from a buffer reset) is the world's  *)
(* choice.                                                                 *)

PortNone == ""

ArduinoKeywords == {"arduino", "ch340", "ch341"}

\* A listed port: its device name and the words of its lower-cased description.
PortLists ==
    {<<>>,
     <<[device |-> "COM1", words |-> {"bluetooth"}]>>,
     <<[device |-> "COM1", words |-> {"bluetooth"}],
       [device |-> "COM3", words |-> {"usb", "ch340"}]>>,
     <<[device |-> "COM4", words |-> {"arduino", "uno"}],
       [device |-> "COM3", words |-> {"usb", "ch340"}]>>}

OpenOutcomes == {"ok", "SerialException", "ValueError"}
FlushOutcomes == {"ok", "SerialException", "termios.error"}

Worlds == [ports : PortLists, open : OpenOutcomes, flush : FlushOutcomes]

\* SerialHardwareController.__init__
SerialHardwareController(port, baud_rate) ==
    [runtime_mode |-> ARDUINO, port |-> port, baud_rate |-> baud_rate,
     serial_open |-> FALSE, running |-> FALSE, loops |-> 0]

\* SimulatedHardwareController.__init__
SimulatedHardwareController ==
    [runtime_mode |-> SIMULATION, port |-> PortNone, baud_rate |-> 0,
     serial_open |-> FALSE, running |-> FALSE, loops |-> 0]

\* SerialHardwareController._detect_arduino_port: the first listed port whose
\* description holds one of the keywords, or no port.
detect_arduino_port(w) ==
    LET hits == {i \in DOMAIN w.ports : w.ports[i].words \cap ArduinoKeywords # {}}
    IN  IF hits = {} THEN PortNone
        ELSE w.ports[CHOOSE i \in hits : \A j \in hits : i <= j].device

\* SerialHardwareController.initialize: the exception raised (or none) and
\* the controller as the call leaves it.
serial_initialize(self, w) ==
    LET port == IF self.port = PortNone THEN detect_arduino_port(w) ELSE self.port
        s1 == [self EXCEPT !.port = port]
        s2 == [s1 EXCEPT !.serial_open = TRUE]
    IN  IF port = PortNone THEN [exc |-> "RuntimeError", self |-> s1]
        ELSE IF w.open = "SerialException" THEN [exc |-> "RuntimeError", self |-> s1]
        ELSE IF w.open # "ok" THEN [exc |-> w.open, self |-> s1]
        ELSE IF w.flush = "SerialException" THEN [exc |-> "RuntimeError", self |-> s2]
        ELSE IF w.flush # "ok" THEN [exc |-> w.flush, self |-> s2]
        ELSE [exc |-> NoExc, self |-> [s2 EXCEPT !.running = TRUE, !.loops = @ + 1]]

\* SimulatedHardwareController.initialize
sim_initialize(self) ==
    [exc |-> NoExc, self |-> [self EXCEPT !.running = TRUE, !.loops = @ + 1]]

\* A factory whose AUTO branch has no except clause.
create_no_fallback(mode, serial_port, baud_rate, w) ==
    IF mode \in {ARDUINO, AUTO}
    THEN LET r == serial_initialize(SerialHardwareController(serial_port, baud_rate), w)
         IN  [exc |-> r.exc,
              ctrl |-> IF r.exc = NoExc THEN Some(r.self) ELSE None,
              log |-> <<[ctrl |-> ARDUINO, exc |-> r.exc]>>]
    ELSE LET r == sim_initialize(SimulatedHardwareController)
         IN  [exc |-> r.exc, ctrl |-> Some(r.self),
              log |-> <<[ctrl |-> SIMULATION, exc |-> r.exc]>>]

\* A factory that falls back to the simulation in ARDUINO mode as well.
create_always_fallback(mode, serial_port, baud_rate, w) ==
    IF mode \in {ARDUINO, AUTO}
    THEN LET r == serial_initialize(SerialHardwareController(serial_port, baud_rate), w)
             f == sim_initialize(SimulatedHardwareController)
         IN  IF r.exc = NoExc
             THEN [exc |-> NoExc, ctrl |-> Some(r.self),
                   log |-> <<[ctrl |-> ARDUINO, exc |-> r.exc]>>]
             ELSE IF r.exc = "RuntimeError"
             THEN [exc |-> f.exc, ctrl |-> Some(f.self),
                   log |-> <<[ctrl |-> ARDUINO, exc |-> r.exc],
                             [ctrl |-> SIMULATION, exc |-> f.exc]>>]
             ELSE [exc |-> r.exc, ctrl |-> None,
                   log |-> <<[ctrl |-> ARDUINO, exc |-> r.exc]>>]
    ELSE LET r == sim_initialize(SimulatedHardwareController)
         IN  [exc |-> r.exc, ctrl |-> Some(r.self),
              log |-> <<[ctrl |-> SIMULATION, exc |-> r.exc]>>]

\* HardwareControllerFactory.create: the exception that escapes (or none),
\* the controller returned, and the controllers constructed and initialised
\* on the way, each with the outcome of its initialize().
create(mode, serial_port, baud_rate, w) ==
    CASE mode = ARDUINO ->
           LET r == serial_initialize(SerialHardwareController(serial_port, baud_rate), w)
           IN  [exc |-> r.exc,
                ctrl |-> IF r.exc = NoExc THEN Some(r.self) ELSE None,
                log |-> <<[ctrl |-> ARDUINO, exc |-> r.exc]>>]
      [] mode = SIMULATION ->
           LET r == sim_initialize(SimulatedHardwareController)
           IN  [exc |-> r.exc, ctrl |-> Some(r.self),
                log |-> <<[ctrl |-> SIMULATION, exc |-> r.exc]>>]
      [] mode = AUTO ->
           LET r == serial_initialize(SerialHardwareController(serial_port, baud_rate), w)
               f == sim_initialize(SimulatedHardwareController)
           IN  IF r.exc = NoExc
               THEN [exc |-> NoExc, ctrl |-> Some(r.self),
                     log |-> <<[ctrl |-> ARDUINO, exc |-> r.exc]>>]
               ELSE IF r.exc = "RuntimeError"
               THEN [exc |-> f.exc, ctrl |-> Some(f.self),
                     log |-> <<[ctrl |-> ARDUINO, exc |-> r.exc],
                               [ctrl |-> SIMULATION, exc |-> f.exc]>>]
               ELSE [exc |-> r.exc, ctrl |-> None,
                     log |-> <<[ctrl |-> ARDUINO, exc |-> r.exc]>>]

SerialPorts == {PortNone, "COM7"}
BaudRates == {9600}

FacInit ==
    /\ world \in Worlds
    /\ fac_req \in [mode : RuntimeMode, serial_port : SerialPorts, baud_rate : BaudRates]
    /\ fac_pc = "start"
    /\ fac_ctrl = None
    /\ fac_exc = NoExc
    /\ fac_log = <<>>

\* One call of HardwareControllerFactory.create, from entry to return or raise.
FactoryCreate ==
    /\ fac_pc = "start"
    /\ LET r == create(fac_req.mode, fac_req.serial_port, fac_req.baud_rate, world)
       IN  /\ fac_ctrl' = r.ctrl
           /\ fac_exc' = r.exc
           /\ fac_log' = r.log
    /\ fac_pc' = "done"
    /\ UNCHANGED <<world, fac_req>>

----------------------------------------------------------------------------
(* Inputs of the pure functions, and one action per function.              *)

NoArg == [kind |-> "none"]
NoResult == [fn |-> "none", exc |-> NoExc, val |-> None]

PureIdle == arg = NoArg /\ result = NoResult

FacIdle ==
    /\ world = [ports |-> <<>>, open |-> "ok", flush |-> "ok"]
    /\ fac_req = [mode |-> SIMULATION, serial_port |-> PortNone, baud_rate |-> 9600]
    /\ fac_pc = "start"
    /\ fac_ctrl = None
    /\ fac_exc = NoExc
    /\ fac_log = <<>>

DeviceCommands ==
    {DeviceCommand(d, s, ts, o) :
        d \in DeviceType, s \in DeviceState, ts \in {1}, o \in BOOLEAN}

AutoModeCommands == {AutoModeCommand(b, 1) : b \in BOOLEAN}

\* Snapshots that pass __post_init__, with every threshold of the control
\* law and of has_emergency on both sides.
Snapshots ==
    {[kind |-> "TelemetrySnapshot", timestamp |-> 1,
      ldr_value |-> l, garage_distance |-> g, motion_detected |-> m,
      rain_detected |-> r, water_level |-> w, soil_moisture |-> so,
      pump_active |-> p, flame_detected |-> f, smoke_level |-> sm,
      temperature |-> 2450, humidity |-> 5500, auto_mode |-> a,
      runtime_mode |-> rm] :
        l \in {0, 500, 501, 1023}, g \in {4, 5, 15, 16}, m \in BOOLEAN,
        r \in BOOLEAN, w \in {0, 1, 5, 6}, so \in {900, 901}, p \in BOOLEAN,
        f \in BOOLEAN, sm \in {150, 151}, a \in BOOLEAN,
        rm \in {SIMULATION, ARDUINO}}

Sep == <<" ","|"," ">>

\* The texts a telemetry line may carry for each field, the usual one first.
FieldTextSeq(f) ==
  CASE f = "ldr" -> <<<<"L","D","R",":"," ","6","5","0">>, <<"L","D","R",":"," ","2","0","0","0">>>>
           [] f = "garage" -> <<<<"G","a","r","a","g","e"," ","D","i","s","t",":"," ","2","0"," ","c","m">>>>
           [] f = "motion" -> <<<<"M","o","t","i","o","n","!">>, <<"N","o"," ","M","o","t","i","o","n">>>>
           [] f = "rain" -> <<<<"R","a","i","n","!">>, <<"N","o"," ","R","a","i","n">>>>
           [] f = "water" -> <<<<"W","a","t","e","r"," ","L","v","l",":"," ","3"," ","c","m">>>>
           [] f = "soil" -> <<<<"S","o","i","l",":"," ","7","5","0">>>>
           [] f = "pump" -> <<<<"P","u","m","p"," ","O","N">>, <<"P","u","m","p"," ","O","F","F">>>>
           [] f = "flame" -> <<<<"F","l","a","m","e",":"," ","Y","E","S">>, <<"F","l","a","m","e",":"," ","N","O">>>>
           [] f = "smoke" -> <<<<"S","m","o","k","e",":","4","5">>>>
           [] f = "temp" -> <<<<"T","e","m","p",":"," ","2","4",".","5"," ","C">>, <<"T","e","m","p",":"," ","1",".","2",".","3"," ","C">>>>
           [] f = "hum" -> <<<<"H","u","m",":"," ","5","5",".","0","%">>>>

FieldTexts(f) == {FieldTextSeq(f)[i] : i \in DOMAIN FieldTextSeq(f)}

DefaultText(f) == FieldTextSeq(f)[1]

RECURSIVE JoinFrom(_, _)
\* The fields chosen from the k-th on, joined by the separator; a field whose
\* choice is the empty text is left out of the line.
JoinFrom(choice, k) ==
    IF k > Len(FieldNames) THEN <<>>
    ELSE LET here == choice[FieldNames[k]]
             rest == JoinFrom(choice, k + 1)
         IN  IF here = <<>> THEN rest
             ELSE IF rest = <<>> THEN here
             ELSE here \o Sep \o rest

LineOf(c) == [kind |-> "line", choice |-> c, text |-> JoinFrom(c, 1)]

\* Every line that carries the usual text of some of the fields and leaves
\* the others out.
LinesMissing ==
    {LineOf([f \in Fields |-> IF f \in present THEN DefaultText(f) ELSE <<>>]) :
        present \in SUBSET Fields}

\* Every line that carries one of the texts of each field.
LinesComplete ==
    {LineOf(c) :
        c \in [ldr : FieldTexts("ldr"), garage : FieldTexts("garage"),
               motion : FieldTexts("motion"), rain : FieldTexts("rain"),
               water : FieldTexts("water"), soil : FieldTexts("soil"),
               pump : FieldTexts("pump"), flame : FieldTexts("flame"),
               smoke : FieldTexts("smoke"), temp : FieldTexts("temp"),
               hum : FieldTexts("hum")]}

Lines == LinesMissing \cup LinesComplete

\* Orders in which the eleven fields may stand in a line: order[k] is the
\* index in FieldNames of the field at place k.
Identity == [k \in DOMAIN FieldNames |-> k]

Rotate(n) == [k \in DOMAIN FieldNames |-> ((k + n - 1) % Len(FieldNames)) + 1]

Reverse(order) == [k \in DOMAIN FieldNames |-> order[Len(FieldNames) + 1 - k]]

Swap(a, b) ==
    [k \in DOMAIN FieldNames |-> IF k = a THEN b ELSE IF k = b THEN a ELSE k]

\* Every rotation, every rotation read backwards, and every exchange of two
\* fields: each pair of fields stands in both relative orders, and each field
\* stands at every place.
Orders ==
    {Rotate(n) : n \in 0..(Len(FieldNames) - 1)}
    \cup {Reverse(Rotate(n)) : n \in 0..(Len(FieldNames) - 1)}
    \cup {Swap(a, b) : a, b \in DOMAIN FieldNames}

RECURSIVE JoinOrder(_, _, _)
\* The fields in the given order from place k on, joined by the separator.
JoinOrder(choice, order, k) ==
    IF k > Len(order) THEN <<>>
    ELSE LET here == choice[FieldNames[order[k]]]
             rest == JoinOrder(choice, order, k + 1)
         IN  IF rest = <<>> THEN here ELSE here \o Sep \o rest

LineIn(c, order) ==
    [kind |-> "line", choice |-> c, order |-> order, text |-> JoinOrder(c, order, 1)]

\* Well-formed lines, each in every one of the orders: the two-valued fields
\* take both of their texts, the numeric fields their usual text.
LinesPermuted ==
    {LineIn(c, order) :
        c \in [ldr : {DefaultText("ldr")}, garage : {DefaultText("garage")},
               motion : FieldTexts("motion"), rain : FieldTexts("rain"),
               water : {DefaultText("water")}, soil : {DefaultText("soil")},
               pump : FieldTexts("pump"), flame : FieldTexts("flame"),
               smoke : {DefaultText("smoke")}, temp : {DefaultText("temp")},
               hum : {DefaultText("hum")}],
        order \in Orders}

\* Field values handed to the TelemetrySnapshot constructor: the three
\* validated fields on and just beyond each end of their ranges, the other
\* numeric fields at a usual and at an implausible value.
SnapshotFields ==
    {[kind |-> "fields",
      fields |-> [timestamp |-> 1, ldr_value |-> l, garage_distance |-> g,
                  motion_detected |-> FALSE, rain_detected |-> FALSE,
                  water_level |-> w, soil_moisture |-> so, pump_active |-> FALSE,
                  flame_detected |-> FALSE, smoke_level |-> sm,
                  temperature |-> t, humidity |-> h, auto_mode |-> a,
                  runtime_mode |-> rm]] :
        l \in {-1, 0, 1023, 1024}, h \in {-1, 0, 10000, 10001},
        t \in {-4001, -4000, 8000, 8001}, g \in {-5, 20}, w \in {-1, 3},
        so \in {750, 5000}, sm \in {-1, 45}, a \in BOOLEAN,
        rm \in {SIMULATION, ARDUINO}}

Construct ==
    /\ arg.kind = "fields"
    /\ result.fn = "none"
    /\ result' = [fn |-> "TelemetrySnapshot"] @@ TelemetrySnapshot(arg.fields)
    /\ UNCHANGED <<arg, sim_vars, fac_vars, phy_vars>>

Encode ==
    /\ arg.kind = "DeviceCommand"
    /\ result.fn = "none"
    /\ result' = [fn |-> "to_arduino_format"] @@ to_arduino_format(arg)
    /\ UNCHANGED <<arg, sim_vars, fac_vars, phy_vars>>

EncodeAuto ==
    /\ arg.kind = "AutoModeCommand"
    /\ result.fn = "none"
    /\ result' = [fn |-> "to_arduino_format"] @@ auto_to_arduino_format(arg)
    /\ UNCHANGED <<arg, sim_vars, fac_vars, phy_vars>>

Evaluate(now) ==
    /\ arg.kind = "TelemetrySnapshot"
    /\ result.fn = "none"
    /\ result' = [fn |-> "evaluate_auto_mode_logic", now |-> now]
                 @@ Return(evaluate_auto_mode_logic(arg, now))
    /\ UNCHANGED <<arg, sim_vars, fac_vars, phy_vars>>

HasEmergency ==
    /\ arg.kind = "TelemetrySnapshot"
    /\ result.fn = "none"
    /\ result' = [fn |-> "has_emergency"] @@ Return(has_emergency(arg))
    /\ UNCHANGED <<arg, sim_vars, fac_vars, phy_vars>>

Parse(now) ==
    /\ arg.kind = "line"
    /\ result.fn = "none"
    /\ result' = [fn |-> "_parse_telemetry", now |-> now] @@ parse_telemetry(arg.text, now)
    /\ UNCHANGED <<arg, sim_vars, fac_vars, phy_vars>>

----------------------------------------------------------------------------
(* infrastructure/serial_controller.py: the controller after construction: *)
(* shutdown, the two command paths, get_telemetry, health_check and the    *)
(* telemetry reader loop.  Code between two awaits runs as one step.  The  *)
(* telemetry lock is taken and released inside one step (no await stands   *)
(* inside an "async with" block), so it is free between steps; what the    *)
(* model keeps is whether each access to the slot was made under the lock. *)

\* stop_after_attempt(3)
MaxAttempts == 3

\* health_check: age < 5
FreshnessSeconds == 5

MaxReaders == 2
MaxClock == 5

\* A completed call: the exception it raised, the boolean it returned (val),
\* or the optional snapshot it returned (telemetry).
Ret(op, exc, val, attempts, writes) ==
    [op |-> op, exc |-> exc, val |-> val, telemetry |-> None,
     attempts |-> attempts, writes |-> writes]

NoRet == Ret("none", NoExc, None, 0, 0)

NoCall ==
    [op |-> "none", pc |-> "idle", command |-> NoArg, attempt |-> 0,
     wire |-> "", writes |-> 0]

NoAccess == [by |-> "none", op |-> "none", locked |-> TRUE]

PhyInit ==
    /\ phy_ctrl = SerialHardwareController(PortNone, 9600)
    /\ phy_latest = None
    /\ phy_reader = [i \in 1..MaxReaders |-> "off"]
    /\ phy_clock = 0
    /\ phy_call = NoCall
    /\ phy_ret = NoRet
    /\ phy_hist = [decoded |-> None, auto |-> None, access |-> NoAccess,
                   shutdown |-> FALSE, read |-> "none"]

\* What the serial library does on initialize: an Arduino port is listed or
\* no port is, and opening and flushing succeed or raise SerialException.
PhyWorlds ==
    {w \in Worlds :
        /\ w.ports \in {<<>>, <<[device |-> "COM4", words |-> {"arduino", "uno"}],
                                [device |-> "COM3", words |-> {"usb", "ch340"}]>>}
        /\ w.open \in {"ok", "SerialException"}
        /\ w.flush \in {"ok", "SerialException"}}

\* What a write handed to the executor does: write and flush complete, or
\* the library raises SerialException.
WriteOutcomes == {"ok", "SerialException"}

\* Commands the callers hand to the physical controller.
PhyCommands ==
    {DeviceCommand(d, st, 1, FALSE) :
        d \in {NIGHT_LED, WATER_PUMP, MOTION_SENSOR}, st \in {ON, OFF}}

\* A shutdown that flips the running flag instead of clearing it.
shutdown_toggle(self) ==
    [self EXCEPT !.running = ~self.running, !.serial_open = FALSE]

\* A shutdown that closes the link and leaves the running flag set.
shutdown_close_only(self) ==
    [self EXCEPT !.serial_open = FALSE]

\* SerialHardwareController.shutdown
shutdown(self) ==
    [self EXCEPT !.running = FALSE, !.serial_open = FALSE]

\* A send_command that encodes the command before it tests the link.
send_attempt_encode_first(self, command, n, writes) ==
    LET arduino_cmd == to_arduino_format(command)
    IN  IF arduino_cmd.exc # NoExc
        THEN [call |-> NoCall,
              ret |-> Some(Ret("send_command", arduino_cmd.exc, None, n, writes))]
        ELSE IF ~self.serial_open
        THEN [call |-> NoCall,
              ret |-> Some(Ret("send_command", NoExc, Some(FALSE), n - 1, writes))]
        ELSE [call |-> [op |-> "send_command", pc |-> "writing", command |-> command,
                        attempt |-> n, wire |-> arduino_cmd.val[1],
                        writes |-> writes + 1],
              ret |-> None]

\* The body of send_command for attempt n, up to its await: the call is
\* over (ret is set) or a write is in the executor (call is set).
send_attempt(self, command, n, writes) ==
    LET arduino_cmd == to_arduino_format(command)
    IN  IF ~self.serial_open
        THEN [call |-> NoCall,
              ret |-> Some(Ret("send_command", NoExc, Some(FALSE), n - 1, writes))]
        ELSE IF arduino_cmd.exc # NoExc
        THEN [call |-> NoCall,
              ret |-> Some(Ret("send_command", arduino_cmd.exc, None, n, writes))]
        ELSE [call |-> [op |-> "send_command", pc |-> "writing", command |-> command,
                        attempt |-> n, wire |-> arduino_cmd.val[1],
                        writes |-> writes + 1],
              ret |-> None]

\* A retry policy that stops one attempt later.
send_write_done_four(c, outcome) ==
    IF outcome = "ok"
    THEN [call |-> NoCall,
          ret |-> Some(Ret("send_command", NoExc, Some(TRUE), c.attempt, c.writes))]
    ELSE IF c.attempt >= MaxAttempts + 1
    THEN [call |-> NoCall,
          ret |-> Some(Ret("send_command", "RetryError", None, c.attempt, c.writes))]
    ELSE [call |-> [c EXCEPT !.pc = "backoff"], ret |-> None]

\* send_command after its await, under the retry decorator: True, or on
\* SerialException another attempt after the backoff, or RetryError once
\* stop_after_attempt says stop.
send_write_done(c, outcome) ==
    IF outcome = "ok"
    THEN [call |-> NoCall,
          ret |-> Some(Ret("send_command", NoExc, Some(TRUE), c.attempt, c.writes))]
    ELSE IF c.attempt >= MaxAttempts
    THEN [call |-> NoCall,
          ret |-> Some(Ret("send_command", "RetryError", None, c.attempt, c.writes))]
    ELSE [call |-> [c EXCEPT !.pc = "backoff"], ret |-> None]

\* A _send_raw that leaves the line terminator out.
send_raw_no_newline(command) ==
    [written |-> command, flushed |-> TRUE]

\* _send_raw: what the executor writes for a command string, and the flush
\* that follows the write.
send_raw(command) ==
    [written |-> command \o "\n", flushed |-> TRUE]

\* set_auto_mode up to its await.
auto_attempt(self, command) ==
    LET arduino_cmd == auto_to_arduino_format(command)
    IN  IF ~self.serial_open
        THEN [call |-> NoCall,
              ret |-> Some(Ret("set_auto_mode", NoExc, Some(FALSE), 0, 0))]
        ELSE [call |-> [op |-> "set_auto_mode", pc |-> "writing", command |-> command,
                        attempt |-> 1, wire |-> arduino_cmd.val[1], writes |-> 1],
              ret |-> None]

\* set_auto_mode after its await: True, or False on SerialException.
auto_write_done(c, outcome) ==
    Ret("set_auto_mode", NoExc, Some(outcome = "ok"), c.attempt, c.writes)

\* A health check that still accepts a snapshot exactly as old as the window.
health_check_stale_ok(self, latest, now) ==
    IF ~self.serial_open THEN FALSE
    ELSE IF latest # None
    THEN now - latest[1].timestamp <= FreshnessSeconds
    ELSE FALSE

\* SerialHardwareController.health_check
health_check(self, latest, now) ==
    IF ~self.serial_open THEN FALSE
    ELSE IF latest # None
    THEN now - latest[1].timestamp < FreshnessSeconds
    ELSE FALSE

\* Bytes that are not ASCII.
NonAscii == {"<ff>"}

\* bytes.decode('ascii', errors='ignore')
decode_ignore(bytes) == SelectSeq(bytes, LAMBDA c : c \notin NonAscii)

Whitespace == {" ", "\t", "\n", "\r"}

RECURSIVE lstrip(_)
lstrip(t) ==
    IF t # <<>> /\ Head(t) \in Whitespace THEN lstrip(Tail(t)) ELSE t

RECURSIVE rstrip(_)
rstrip(t) ==
    IF t # <<>> /\ t[Len(t)] \in Whitespace
    THEN rstrip(SubSeq(t, 1, Len(t) - 1)) ELSE t

\* str.strip()
strip(t) == rstrip(lstrip(t))

EndOfLine == <<"\r", "\n">>

\* What readline may hand to the reader loop.
ReadLines ==
    LET usual == [f \in Fields |-> DefaultText(f)]
        other == [usual EXCEPT !.motion = lit_NoMotion,
                               !.pump = lit_Pump \o lit_OFF,
                               !.flame = FieldTextSeq("flame")[2]]
        range == [usual EXCEPT !.ldr = FieldTextSeq("ldr")[2]]
        short == [usual EXCEPT !.hum = <<>>]
    IN  {JoinFrom(usual, 1) \o EndOfLine,
         <<"<ff>">> \o JoinFrom(other, 1) \o EndOfLine,
         JoinFrom(range, 1) \o EndOfLine,
         JoinFrom(short, 1) \o EndOfLine,
         EndOfLine,
         <<>>}

\* readline returns bytes (none on a timeout) or raises.
ReadOutcomes ==
    {[kind |-> "line", bytes |-> l] : l \in ReadLines}
    \cup {[kind |-> "SerialException", bytes |-> <<>>]}

\* A reader loop that stores whatever the decoder returned.
cache_update_always(latest, telemetry) == telemetry

\* "if telemetry:" and the assignment under the lock.
cache_update(latest, telemetry) ==
    IF telemetry # None THEN telemetry ELSE latest

\* What the reader loop keeps of the decoder's result: the snapshot or none.
telemetry_of(parsed) ==
    IF parsed.exc # NoExc THEN None ELSE parsed.val[1]

\* The reader loop from the return of readline to "if telemetry:": the
\* snapshot decoded from what readline handed over at time now, or none.
reader_decode(o, now) ==
    IF o.kind # "line" \/ o.bytes = <<>> THEN None
    ELSE telemetry_of(parse_telemetry(strip(decode_ignore(o.bytes)), now))

\* reader_decode of every outcome at every time, computed once.
DecodedAt ==
    {[o |-> o, now |-> t, telemetry |-> reader_decode(o, t)] :
        o \in ReadOutcomes, t \in 0..MaxClock}

\* The decoded snapshot (none when the line gave none) and the slot afterwards.
slot_after(latest, telemetry) ==
    [telemetry |-> telemetry, latest |-> cache_update(latest, telemetry)]

\* The reader loop from the return of readline to its sleep.
reader_line(latest, o, now) ==
    slot_after(latest, (CHOOSE r \in DecodedAt : r.o = o /\ r.now = now).telemetry)

\* initialize(), from entry to return or raise; a successful call starts one
\* reader task.
PhyInitialize(w) ==
    /\ phy_ctrl.loops < MaxReaders
    /\ LET r == serial_initialize(phy_ctrl, w)
           free == {i \in DOMAIN phy_reader : phy_reader[i] = "off"}
           slot == CHOOSE i \in free : \A j \in free : i <= j
       IN  /\ phy_ctrl' = r.self
           /\ phy_reader' = IF r.exc = NoExc
                            THEN [phy_reader EXCEPT ![slot] = "top"]
                            ELSE phy_reader
           /\ phy_ret' = Ret("initialize", r.exc, None, 0, 0)
    /\ UNCHANGED <<phy_latest, phy_clock, phy_call, phy_hist>>

\* A shutdown that also forgets the cached snapshot.
PhyShutdownClearing ==
    /\ phy_ctrl' = shutdown(phy_ctrl)
    /\ phy_ret' = Ret("shutdown", NoExc, None, 0, 0)
    /\ phy_hist' = [phy_hist EXCEPT !.shutdown = TRUE]
    /\ phy_latest' = None
    /\ UNCHANGED <<phy_reader, phy_clock, phy_call>>

\* shutdown(), from entry to return.
PhyShutdown ==
    /\ phy_ctrl' = shutdown(phy_ctrl)
    /\ phy_ret' = Ret("shutdown", NoExc, None, 0, 0)
    /\ phy_hist' = [phy_hist EXCEPT !.shutdown = TRUE]
    /\ UNCHANGED <<phy_latest, phy_reader, phy_clock, phy_call>>

\* send_command, first attempt.
PhySendCommand(command) ==
    /\ phy_call = NoCall
    /\ LET r == send_attempt(phy_ctrl, command, 1, 0)
       IN  /\ phy_call' = r.call
           /\ phy_ret' = IF r.ret = None THEN phy_ret ELSE r.ret[1]
    /\ UNCHANGED <<phy_ctrl, phy_latest, phy_reader, phy_clock, phy_hist>>

\* The executor finishes the write of send_command.
PhySendWriteDone(outcome) ==
    /\ phy_call.op = "send_command"
    /\ phy_call.pc = "writing"
    /\ LET r == send_write_done(phy_call, outcome)
       IN  /\ phy_call' = r.call
           /\ phy_ret' = IF r.ret = None THEN phy_ret ELSE r.ret[1]
    /\ UNCHANGED <<phy_ctrl, phy_latest, phy_reader, phy_clock, phy_hist>>

\* The backoff sleep ends and the next attempt starts.
PhySendRetry ==
    /\ phy_call.op = "send_command"
    /\ phy_call.pc = "backoff"
    /\ LET r == send_attempt(phy_ctrl, phy_call.command, phy_call.attempt + 1,
                             phy_call.writes)
       IN  /\ phy_call' = r.call
           /\ phy_ret' = IF r.ret = None THEN phy_ret ELSE r.ret[1]
    /\ UNCHANGED <<phy_ctrl, phy_latest, phy_reader, phy_clock, phy_hist>>

PhySetAutoMode(command) ==
    /\ phy_call = NoCall
    /\ LET r == auto_attempt(phy_ctrl, command)
       IN  /\ phy_call' = r.call
           /\ phy_ret' = IF r.ret = None THEN phy_ret ELSE r.ret[1]
    /\ UNCHANGED <<phy_ctrl, phy_latest, phy_reader, phy_clock, phy_hist>>

\* The executor finishes the write of set_auto_mode.
PhyAutoWriteDone(outcome) ==
    /\ phy_call.op = "set_auto_mode"
    /\ phy_call.pc = "writing"
    /\ phy_ret' = auto_write_done(phy_call, outcome)
    /\ phy_hist' = IF outcome = "ok"
                   THEN [phy_hist EXCEPT !.auto = Some(phy_call.command.enabled)]
                   ELSE phy_hist
    /\ phy_call' = NoCall
    /\ UNCHANGED <<phy_ctrl, phy_latest, phy_reader, phy_clock>>

\* A reader loop that takes the lock before it waits for readline.
reader_holds_lock_while_reading(pc) == pc = "reading"

\* Whether a reader task suspended at pc holds _telemetry_lock: "async with"
\* spans the assignment to the slot alone, which has no await in it, so the
\* task holds the lock neither in its sleep nor while readline is out.
reader_holds_lock(pc) == FALSE

\* get_telemetry: "async with self._telemetry_lock" goes on once no other
\* task holds the lock; it returns the slot and releases.
PhyGetTelemetry ==
    /\ \A i \in DOMAIN phy_reader : ~reader_holds_lock(phy_reader[i])
    /\ phy_ret' = [Ret("get_telemetry", NoExc, None, 0, 0)
                      EXCEPT !.telemetry = Some(phy_latest)]
    /\ phy_hist' = [phy_hist EXCEPT
                      !.access = [by |-> "get_telemetry", op |-> "read", locked |-> TRUE]]
    /\ UNCHANGED <<phy_ctrl, phy_latest, phy_reader, phy_clock, phy_call>>

\* health_check reads the slot, outside the lock, once the link test passed.
PhyHealthCheck ==
    /\ phy_ret' = Ret("health_check", NoExc,
                      Some(health_check(phy_ctrl, phy_latest, phy_clock)), 0, 0)
    /\ phy_hist' = IF phy_ctrl.serial_open
                   THEN [phy_hist EXCEPT
                           !.access = [by |-> "health_check", op |-> "read",
                                       locked |-> FALSE]]
                   ELSE phy_hist
    /\ UNCHANGED <<phy_ctrl, phy_latest, phy_reader, phy_clock, phy_call>>

\* The reader loop at "while self._running": the task ends, or it hands
\* readline to the executor, or (link not open) it sleeps and comes back.
ReaderTop(i) ==
    /\ phy_reader[i] = "top"
    /\ IF ~phy_ctrl.running
       THEN /\ phy_reader' = [phy_reader EXCEPT ![i] = "off"]
            /\ phy_ctrl' = [phy_ctrl EXCEPT !.loops = @ - 1]
       ELSE IF phy_ctrl.serial_open
       THEN /\ phy_reader' = [phy_reader EXCEPT ![i] = "reading"]
            /\ UNCHANGED phy_ctrl
       ELSE UNCHANGED <<phy_reader, phy_ctrl>>
    /\ UNCHANGED <<phy_latest, phy_clock, phy_call, phy_ret, phy_hist>>

\* A reader loop that lets the exception of readline escape: the task ends.
after_read_raising(o) ==
    IF o.kind = "line" THEN "top" ELSE "off"

\* Where the reader loop is after an iteration: "except Exception" catches
\* what readline or the decoder raised, and either way the loop sleeps and
\* comes back to its "while".
after_read(o) == "top"

\* The end of a reader iteration that readline ended with "read" (a
\* snapshot, a line that gave none, or an exception) and whose outcome is r:
\* the slot is replaced under the lock when a snapshot was decoded; then the
\* loop sleeps.
ReaderCache(i, r, pc, read) ==
    /\ phy_latest' = r.latest
    /\ phy_hist' = IF r.telemetry # None
                   THEN [phy_hist EXCEPT
                           !.decoded = r.telemetry,
                           !.access = [by |-> "reader", op |-> "replace",
                                       locked |-> TRUE],
                           !.read = "snapshot"]
                   ELSE [phy_hist EXCEPT !.read = read]
    /\ phy_reader' = [phy_reader EXCEPT ![i] = pc]
    /\ UNCHANGED <<phy_ctrl, phy_clock, phy_call, phy_ret>>

\* readline comes back: decode, and cache; an exception is logged.
ReaderLine(i, o) ==
    /\ phy_reader[i] = "reading"
    /\ ReaderCache(i, reader_line(phy_latest, o, phy_clock), after_read(o), o.kind)

\* A second passes.
Advance ==
    /\ phy_clock < MaxClock
    /\ phy_clock' = phy_clock + 1
    /\ UNCHANGED <<phy_ctrl, phy_latest, phy_reader, phy_call, phy_ret, phy_hist>>

----------------------------------------------------------------------------
(* application/use_cases.py and api/routes.py: the use cases that stand     *)
(* between the routes and the controller.  Awaiting a controller operation *)
(* that does not suspend (get_telemetry on a free lock, every operation of *)
(* the simulated controller, send_command up to its executor call) runs in *)
(* the same step as the code around it.                                    *)

\* The commands the /manual-control route builds: an actuator, an action
\* word and the manual_override flag of the request.
ManualCommands ==
    {DeviceCommand(d, s, 1, o) :
        d \in {NIGHT_LED, WATER_PUMP}, s \in {ON, OFF}, o \in BOOLEAN}

\* ManualControlUseCase.execute, the test that blocks a command.
manual_control_blocked(current_telemetry, command) ==
    /\ current_telemetry # None
    /\ current_telemetry[1].auto_mode
    /\ ~command.manual_override

\* ManualControlUseCase.execute on the simulated controller.
SimManualControl(command, now) ==
    /\ IF manual_control_blocked(get_telemetry(env, now), command)
       THEN /\ sim_call' = "manual_control"
            /\ sim_ret' = Some(FALSE)
            /\ env' = env
       ELSE LET r == send_command(env, command)
            IN  /\ sim_call' = "send_command"
                /\ sim_ret' = Some(r.ret)
                /\ env' = r.env
    /\ UNCHANGED <<sim_running, sim_loop, sim_ticks>>

\* ManualControlUseCase.execute on the physical controller, up to the
\* return of a blocked command or to the first await of send_command.
PhyManualControl(command) ==
    /\ phy_call = NoCall
    /\ \A i \in DOMAIN phy_reader : ~reader_holds_lock(phy_reader[i])
    /\ IF manual_control_blocked(phy_latest, command)
       THEN /\ phy_call' = NoCall
            /\ phy_ret' = Ret("manual_control", NoExc, Some(FALSE), 0, 0)
       ELSE LET r == send_attempt(phy_ctrl, command, 1, 0)
            IN  /\ phy_call' = r.call
                /\ phy_ret' = IF r.ret = None THEN phy_ret ELSE r.ret[1]
    /\ phy_hist' = [phy_hist EXCEPT
                      !.access = [by |-> "get_telemetry", op |-> "read", locked |-> TRUE]]
    /\ UNCHANGED <<phy_ctrl, phy_latest, phy_reader, phy_clock>>

\* OpenAIIntentParser.check_safety: TRUE when the commands are safe.
check_safety(commands, current_state) ==
    IF /\ has_emergency(current_state)
       /\ \E i \in DOMAIN commands : commands[i].device_type = NIGHT_LED
    THEN FALSE
    ELSE IF /\ current_state.auto_mode
            /\ \E i \in DOMAIN commands : ~commands[i].manual_override
    THEN FALSE
    ELSE TRUE

\* The device commands a parse result may list.
VoiceCommands ==
    {DeviceCommand(d, ON, 1, o) : d \in {NIGHT_LED, WATER_PUMP}, o \in BOOLEAN}

\* What parse_voice_command may return, the language model being outside
\* the repository: a clarifying question, an AutoModeCommand, or a list of
\* one or two device commands.
ParseResults ==
    {[kind |-> "question"]}
    \cup {AutoModeCommand(b, 1) : b \in BOOLEAN}
    \cup {[kind |-> "commands", commands |-> l] :
            l \in {<<c>> : c \in VoiceCommands}
                  \cup {<<c, d>> : c \in VoiceCommands, d \in VoiceCommands}}

RECURSIVE send_each(_, _, _)
\* The loop "for cmd in commands" of VoiceCommandUseCase.execute on the
\* simulated controller, from the k-th command on: the environment
\* afterwards and the number of commands that returned True.
send_each(e, commands, k) ==
    IF k > Len(commands) THEN [env |-> e, executed |-> 0]
    ELSE LET r == send_command(e, commands[k])
             rest == send_each(r.env, commands, k + 1)
         IN  [env |-> rest.env,
              executed |-> rest.executed + (IF r.ret THEN 1 ELSE 0)]

\* VoiceCommandUseCase.execute from the return of parse_voice_command on:
\* the status returned, the number of actions reported and the environment.
voice_execute(e, current_state, parse_result) ==
    IF parse_result.kind = "question"
    THEN [status |-> "clarification_needed", actions |-> 0, env |-> e]
    ELSE IF parse_result.kind = "AutoModeCommand"
    THEN LET r == set_auto_mode(e, parse_result)
         IN  [status |-> IF r.ret THEN "success" ELSE "error", actions |-> 1,
              env |-> r.env]
    ELSE IF current_state # None
            /\ ~check_safety(parse_result.commands, current_state[1])
    THEN [status |-> "safety_violation", actions |-> 0, env |-> e]
    ELSE LET r == send_each(e, parse_result.commands, 1)
         IN  [status |-> IF r.executed > 0 THEN "success" ELSE "error",
              actions |-> r.executed, env |-> r.env]

\* VoiceCommandUseCase.execute on the simulated controller, up to the await
\* of parse_voice_command: the telemetry read is kept in arg while the
\* request to the language model is out.
SimVoiceStart(now) ==
    /\ arg = NoArg
    /\ arg' = [kind |-> "voice", current_state |-> get_telemetry(env, now)]
    /\ UNCHANGED <<result, sim_vars>>

\* parse_voice_command returns and execute runs to its end.
SimVoiceParsed(parse_result) ==
    /\ arg.kind = "voice"
    /\ LET r == voice_execute(env, arg.current_state, parse_result)
       IN  /\ env' = r.env
           /\ result' = [fn |-> "VoiceCommandUseCase.execute", exc |-> NoExc,
                         val |-> None, status |-> r.status, actions |-> r.actions]
    /\ arg' = NoArg
    /\ sim_call' = "voice_command"
    /\ sim_ret' = None
    /\ UNCHANGED <<sim_running, sim_loop, sim_ticks>>

----------------------------------------------------------------------------
(* Specifications.                                                         *)

\* The simulated controller, from construction.
Init == PureIdle /\ SimInit /\ FacIdle /\ PhyInit

Next ==
    \/ (SimInitialize /\ UNCHANGED <<pure_vars, fac_vars, phy_vars>>)
    \/ (SimShutdown /\ UNCHANGED <<pure_vars, fac_vars, phy_vars>>)
    \/ (\E c \in SimCommands : SimSendCommand(c) /\ UNCHANGED <<pure_vars, fac_vars, phy_vars>>)
    \/ (\E c \in SimAutoCommands : SimSetAutoMode(c) /\ UNCHANGED <<pure_vars, fac_vars, phy_vars>>)
    \/ (\E now \in Times : SimGetTelemetry(now) /\ UNCHANGED <<pure_vars, fac_vars, phy_vars>>)
    \/ (SimHealthCheck /\ UNCHANGED <<pure_vars, fac_vars, phy_vars>>)
    \/ (\E d \in Draws : SimTick(d) /\ UNCHANGED <<pure_vars, fac_vars, phy_vars>>)
    \/ (SimLoopStop /\ UNCHANGED <<pure_vars, fac_vars, phy_vars>>)

Spec == Init /\ [][Next]_vars

\* Command encoding.
InitCodec ==
    /\ arg \in DeviceCommands \cup AutoModeCommands
    /\ result = NoResult
    /\ SimInit /\ FacIdle /\ PhyInit

NextCodec == Encode \/ EncodeAuto

SpecCodec == InitCodec /\ [][NextCodec]_vars

\* Control law and emergency test.
InitEval ==
    /\ arg \in Snapshots
    /\ result = NoResult
    /\ SimInit /\ FacIdle /\ PhyInit

NextEval == (\E now \in Times : Evaluate(now)) \/ HasEmergency

SpecEval == InitEval /\ [][NextEval]_vars

\* Telemetry line decoding.
InitParse ==
    /\ arg \in Lines
    /\ result = NoResult
    /\ SimInit /\ FacIdle /\ PhyInit

NextParse == \E now \in Times : Parse(now)

SpecParse == InitParse /\ [][NextParse]_vars

\* Telemetry line decoding, the fields of a line in every order.
InitReorder ==
    /\ arg \in LinesPermuted
    /\ result = NoResult
    /\ SimInit /\ FacIdle /\ PhyInit

SpecReorder == InitReorder /\ [][NextParse]_vars

\* Snapshot construction.
InitSnapshot ==
    /\ arg \in SnapshotFields
    /\ result = NoResult
    /\ SimInit /\ FacIdle /\ PhyInit

NextSnapshot == Construct

SpecSnapshot == InitSnapshot /\ [][NextSnapshot]_vars

\* The controller factory.
InitFactory == PureIdle /\ SimInit /\ FacInit /\ PhyInit

NextFactory == FactoryCreate /\ UNCHANGED <<pure_vars, sim_vars, phy_vars>>

SpecFactory == InitFactory /\ [][NextFactory]_vars

\* The physical controller, telemetry side: the reader loop, the clock and
\* the two calls that read the slot.
InitTelemetry == PureIdle /\ SimInit /\ FacIdle /\ PhyInit

NextTelemetry ==
    \/ (\E w \in PhyWorlds : PhyInitialize(w) /\ UNCHANGED <<pure_vars, sim_vars, fac_vars>>)
    \/ (PhyShutdown /\ UNCHANGED <<pure_vars, sim_vars, fac_vars>>)
    \/ (\E i \in 1..MaxReaders : ReaderTop(i) /\ UNCHANGED <<pure_vars, sim_vars, fac_vars>>)
    \/ (\E i \in 1..MaxReaders : \E o \in ReadOutcomes :
            ReaderLine(i, o) /\ UNCHANGED <<pure_vars, sim_vars, fac_vars>>)
    \/ (PhyGetTelemetry /\ UNCHANGED <<pure_vars, sim_vars, fac_vars>>)
    \/ (PhyHealthCheck /\ UNCHANGED <<pure_vars, sim_vars, fac_vars>>)
    \/ (Advance /\ UNCHANGED <<pure_vars, sim_vars, fac_vars>>)

SpecTelemetry == InitTelemetry /\ [][NextTelemetry]_vars

\* The physical controller, auto-mode flag: set_auto_mode beside the reader loop.
NextAutoFlag ==
    \/ (\E w \in PhyWorlds : PhyInitialize(w) /\ UNCHANGED <<pure_vars, sim_vars, fac_vars>>)
    \/ (PhyShutdown /\ UNCHANGED <<pure_vars, sim_vars, fac_vars>>)
    \/ (\E i \in 1..MaxReaders : ReaderTop(i) /\ UNCHANGED <<pure_vars, sim_vars, fac_vars>>)
    \/ (\E i \in 1..MaxReaders : \E o \in ReadOutcomes :
            ReaderLine(i, o) /\ UNCHANGED <<pure_vars, sim_vars, fac_vars>>)
    \/ (\E c \in AutoModeCommands : PhySetAutoMode(c) /\ UNCHANGED <<pure_vars, sim_vars, fac_vars>>)
    \/ (\E o \in WriteOutcomes : PhyAutoWriteDone(o) /\ UNCHANGED <<pure_vars, sim_vars, fac_vars>>)
    \/ (PhyGetTelemetry /\ UNCHANGED <<pure_vars, sim_vars, fac_vars>>)

SpecAutoFlag == InitTelemetry /\ [][NextAutoFlag]_vars

\* The operations the callers of one process invoke, kept in arg for the
\* whole behaviour: send_command, or set_auto_mode, or the two reads.
CallerSets ==
    {[kind |-> "callers", ops |-> s] :
        s \in {{"send_command"}, {"set_auto_mode"}, {"get_telemetry", "health_check"}}}

InitCache ==
    /\ arg \in CallerSets
    /\ result = NoResult
    /\ SimInit /\ FacIdle /\ PhyInit

\* The physical controller, cache side: the reader loop beside initialize,
\* shutdown and the operations the callers of this process invoke.
NextCache ==
    \/ (\E w \in PhyWorlds : PhyInitialize(w) /\ UNCHANGED <<pure_vars, sim_vars, fac_vars>>)
    \/ (PhyShutdown /\ UNCHANGED <<pure_vars, sim_vars, fac_vars>>)
    \/ (\E i \in 1..MaxReaders : ReaderTop(i) /\ UNCHANGED <<pure_vars, sim_vars, fac_vars>>)
    \/ (\E i \in 1..MaxReaders : \E o \in ReadOutcomes :
            ReaderLine(i, o) /\ UNCHANGED <<pure_vars, sim_vars, fac_vars>>)
    \/ ("send_command" \in arg.ops /\ \E c \in PhyCommands :
            PhySendCommand(c) /\ UNCHANGED <<pure_vars, sim_vars, fac_vars>>)
    \/ (\E o \in WriteOutcomes : PhySendWriteDone(o) /\ UNCHANGED <<pure_vars, sim_vars, fac_vars>>)
    \/ (PhySendRetry /\ UNCHANGED <<pure_vars, sim_vars, fac_vars>>)
    \/ ("set_auto_mode" \in arg.ops /\ \E c \in AutoModeCommands :
            PhySetAutoMode(c) /\ UNCHANGED <<pure_vars, sim_vars, fac_vars>>)
    \/ (\E o \in WriteOutcomes : PhyAutoWriteDone(o) /\ UNCHANGED <<pure_vars, sim_vars, fac_vars>>)
    \/ ("get_telemetry" \in arg.ops /\ PhyGetTelemetry
            /\ UNCHANGED <<pure_vars, sim_vars, fac_vars>>)
    \/ ("health_check" \in arg.ops /\ PhyHealthCheck
            /\ UNCHANGED <<pure_vars, sim_vars, fac_vars>>)

SpecCache == InitCache /\ [][NextCache]_vars

\* The physical controller, command side: the two command paths beside
\* initialize and shutdown.  The executor finishes every write it was handed
\* and every backoff sleep ends.
NextCommand ==
    \/ (\E w \in PhyWorlds : PhyInitialize(w) /\ UNCHANGED <<pure_vars, sim_vars, fac_vars>>)
    \/ (PhyShutdown /\ UNCHANGED <<pure_vars, sim_vars, fac_vars>>)
    \/ (\E c \in PhyCommands : PhySendCommand(c) /\ UNCHANGED <<pure_vars, sim_vars, fac_vars>>)
    \/ (\E o \in WriteOutcomes : PhySendWriteDone(o) /\ UNCHANGED <<pure_vars, sim_vars, fac_vars>>)
    \/ (PhySendRetry /\ UNCHANGED <<pure_vars, sim_vars, fac_vars>>)
    \/ (\E c \in AutoModeCommands : PhySetAutoMode(c) /\ UNCHANGED <<pure_vars, sim_vars, fac_vars>>)
    \/ (\E o \in WriteOutcomes : PhyAutoWriteDone(o) /\ UNCHANGED <<pure_vars, sim_vars, fac_vars>>)

SpecCommand ==
    /\ InitTelemetry
    /\ [][NextCommand]_vars
    /\ WF_vars((\E o \in WriteOutcomes : PhySendWriteDone(o))
               /\ UNCHANGED <<pure_vars, sim_vars, fac_vars>>)
    /\ WF_vars(PhySendRetry /\ UNCHANGED <<pure_vars, sim_vars, fac_vars>>)

\* The physical controller, command side, with every command a caller can
\* build: each device, sensors included, in each state.
NextWire ==
    \/ (\E w \in PhyWorlds : PhyInitialize(w) /\ UNCHANGED <<pure_vars, sim_vars, fac_vars>>)
    \/ (PhyShutdown /\ UNCHANGED <<pure_vars, sim_vars, fac_vars>>)
    \/ (\E c \in DeviceCommands : PhySendCommand(c) /\ UNCHANGED <<pure_vars, sim_vars, fac_vars>>)
    \/ (\E o \in WriteOutcomes : PhySendWriteDone(o) /\ UNCHANGED <<pure_vars, sim_vars, fac_vars>>)
    \/ (PhySendRetry /\ UNCHANGED <<pure_vars, sim_vars, fac_vars>>)
    \/ (\E c \in AutoModeCommands : PhySetAutoMode(c) /\ UNCHANGED <<pure_vars, sim_vars, fac_vars>>)
    \/ (\E o \in WriteOutcomes : PhyAutoWriteDone(o) /\ UNCHANGED <<pure_vars, sim_vars, fac_vars>>)

SpecWire == InitTelemetry /\ [][NextWire]_vars

\* Manual control through the use case, one controller per process: the
\* physical controller with its reader loop and set_auto_mode, or the
\* simulated controller with its loop and set_auto_mode.
NextManual ==
    \/ (SimInit /\ \E w \in PhyWorlds :
            PhyInitialize(w) /\ UNCHANGED <<pure_vars, sim_vars, fac_vars>>)
    \/ (SimInit /\ \E i \in 1..MaxReaders :
            ReaderTop(i) /\ UNCHANGED <<pure_vars, sim_vars, fac_vars>>)
    \/ (SimInit /\ \E i \in 1..MaxReaders : \E o \in ReadOutcomes :
            ReaderLine(i, o) /\ UNCHANGED <<pure_vars, sim_vars, fac_vars>>)
    \/ (SimInit /\ \E c \in AutoModeCommands :
            PhySetAutoMode(c) /\ UNCHANGED <<pure_vars, sim_vars, fac_vars>>)
    \/ (SimInit /\ \E o \in WriteOutcomes :
            PhyAutoWriteDone(o) /\ UNCHANGED <<pure_vars, sim_vars, fac_vars>>)
    \/ (SimInit /\ \E c \in ManualCommands :
            PhyManualControl(c) /\ UNCHANGED <<pure_vars, sim_vars, fac_vars>>)
    \/ (SimInit /\ \E o \in WriteOutcomes :
            PhySendWriteDone(o) /\ UNCHANGED <<pure_vars, sim_vars, fac_vars>>)
    \/ (SimInit /\ PhySendRetry /\ UNCHANGED <<pure_vars, sim_vars, fac_vars>>)
    \/ (PhyInit /\ SimInitialize /\ UNCHANGED <<pure_vars, fac_vars, phy_vars>>)
    \/ (PhyInit /\ \E c \in SimAutoCommands :
            SimSetAutoMode(c) /\ UNCHANGED <<pure_vars, fac_vars, phy_vars>>)
    \/ (PhyInit /\ \E c \in ManualCommands : \E now \in Times :
            SimManualControl(c, now) /\ UNCHANGED <<pure_vars, fac_vars, phy_vars>>)
    \/ (PhyInit /\ \E d \in Draws : SimTick(d) /\ UNCHANGED <<pure_vars, fac_vars, phy_vars>>)

SpecManual == Init /\ [][NextManual]_vars

\* Voice commands through the use case on the simulated controller: the
\* loop and set_auto_mode beside the two halves of execute.
NextVoice ==
    \/ (SimInitialize /\ UNCHANGED <<pure_vars, fac_vars, phy_vars>>)
    \/ (\E d \in Draws : SimTick(d) /\ UNCHANGED <<pure_vars, fac_vars, phy_vars>>)
    \/ (\E c \in SimAutoCommands : SimSetAutoMode(c) /\ UNCHANGED <<pure_vars, fac_vars, phy_vars>>)
    \/ (\E now \in Times : SimVoiceStart(now) /\ UNCHANGED <<fac_vars, phy_vars>>)
    \/ (\E p \in ParseResults : SimVoiceParsed(p) /\ UNCHANGED <<fac_vars, phy_vars>>)

SpecVoice == Init /\ [][NextVoice]_vars

\* The simulated controller in a long run: the loop at the ends of the
\* environment's ranges, beside commands and telemetry reads.
InitRange == PureIdle /\ SimRunning /\ FacIdle /\ PhyInit

NextRange ==
    \/ (\E d \in EdgeDraws : SimTick(d) /\ UNCHANGED <<pure_vars, fac_vars, phy_vars>>)
    \/ (\E c \in PumpCommands : SimSendCommand(c) /\ UNCHANGED <<pure_vars, fac_vars, phy_vars>>)
    \/ (\E c \in SimAutoCommands : SimSetAutoMode(c) /\ UNCHANGED <<pure_vars, fac_vars, phy_vars>>)
    \/ (\E now \in Times : SimGetTelemetry(now) /\ UNCHANGED <<pure_vars, fac_vars, phy_vars>>)

SpecRange == InitRange /\ [][NextRange]_vars

\* The simulated controller from construction with the command handed to the
\* last send_command kept in arg, so that a later loop iteration can be set
\* against it.
NextOverride ==
    \/ (SimInitialize /\ UNCHANGED <<pure_vars, fac_vars, phy_vars>>)
    \/ (\E c \in SimCommands :
           SimSendCommand(c) /\ arg' = c /\ UNCHANGED <<result, fac_vars, phy_vars>>)
    \/ (\E c \in SimAutoCommands : SimSetAutoMode(c) /\ UNCHANGED <<pure_vars, fac_vars, phy_vars>>)
    \/ (\E d \in Draws : SimTick(d) /\ UNCHANGED <<pure_vars, fac_vars, phy_vars>>)

SpecOverride == Init /\ [][NextOverride]_vars

\* The simulated controller with auto mode left enabled and its loop running
\* without end: iterations beside pump commands. The loop sleeps
\* update_interval and iterates again while _running is set, so an iteration
\* is always taken in the end.
InitPump == PureIdle /\ SimStarted /\ FacIdle /\ PhyInit

NextPump ==
    \/ (\E d \in SteadyDraws : SimIterate(d) /\ UNCHANGED <<pure_vars, fac_vars, phy_vars>>)
    \/ (\E c \in PumpCommands : SimSendCommand(c) /\ UNCHANGED <<pure_vars, fac_vars, phy_vars>>)

SpecPump ==
    /\ InitPump
    /\ [][NextPump]_vars
    /\ WF_vars(\E d \in SteadyDraws :
                  SimIterate(d) /\ UNCHANGED <<pure_vars, fac_vars, phy_vars>>)

\* One controller per process, as the factory hands out: the physical
\* controller (initialize, shutdown, reader loop, set_auto_mode and
\* get_telemetry) while the simulated one stays as constructed, or every
\* operation of the simulated controller while the physical one does.
NextModes ==
    \/ (SimInit /\ NextAutoFlag)
    \/ (PhyInit /\ Next)

SpecModes == Init /\ [][NextModes]_vars

\* Both controllers from construction: initialize, shutdown and their loops.
NextLifecycle ==
    \/ (\E w \in PhyWorlds : PhyInitialize(w) /\ UNCHANGED <<pure_vars, sim_vars, fac_vars>>)
    \/ (PhyShutdown /\ UNCHANGED <<pure_vars, sim_vars, fac_vars>>)
    \/ (\E i \in 1..MaxReaders : ReaderTop(i) /\ UNCHANGED <<pure_vars, sim_vars, fac_vars>>)
    \/ (\E i \in 1..MaxReaders : \E o \in ReadOutcomes :
            ReaderLine(i, o) /\ UNCHANGED <<pure_vars, sim_vars, fac_vars>>)
    \/ (SimInitialize /\ UNCHANGED <<pure_vars, fac_vars, phy_vars>>)
    \/ (SimShutdown /\ UNCHANGED <<pure_vars, fac_vars, phy_vars>>)
    \/ (\E d \in Draws : SimTick(d) /\ UNCHANGED <<pure_vars, fac_vars, phy_vars>>)
    \/ (SimLoopStop /\ UNCHANGED <<pure_vars, fac_vars, phy_vars>>)

SpecLifecycle == InitTelemetry /\ [][NextLifecycle]_vars

\* One controller per process, its initialize and shutdown beside its loop,
\* with the scheduling the loop relies on: a pending readline returns or
\* raises within the link's timeout, every sleep of a loop ends, and the
\* event loop runs each task that is ready.
NextStop ==
    \/ (SimInit /\ \E w \in PhyWorlds :
            PhyInitialize(w) /\ UNCHANGED <<pure_vars, sim_vars, fac_vars>>)
    \/ (SimInit /\ PhyShutdown /\ UNCHANGED <<pure_vars, sim_vars, fac_vars>>)
    \/ (SimInit /\ \E i \in 1..MaxReaders :
            ReaderTop(i) /\ UNCHANGED <<pure_vars, sim_vars, fac_vars>>)
    \/ (SimInit /\ \E i \in 1..MaxReaders : \E o \in ReadOutcomes :
            ReaderLine(i, o) /\ UNCHANGED <<pure_vars, sim_vars, fac_vars>>)
    \/ (PhyInit /\ SimInitialize /\ UNCHANGED <<pure_vars, fac_vars, phy_vars>>)
    \/ (PhyInit /\ SimShutdown /\ UNCHANGED <<pure_vars, fac_vars, phy_vars>>)
    \/ (PhyInit /\ \E d \in Draws : SimTick(d) /\ UNCHANGED <<pure_vars, fac_vars, phy_vars>>)
    \/ (PhyInit /\ SimLoopStop /\ UNCHANGED <<pure_vars, fac_vars, phy_vars>>)

SpecStop ==
    /\ InitTelemetry
    /\ [][NextStop]_vars
    /\ \A i \in 1..MaxReaders :
          /\ WF_vars(SimInit /\ ReaderTop(i)
                     /\ UNCHANGED <<pure_vars, sim_vars, fac_vars>>)
          /\ WF_vars(SimInit /\ (\E o \in ReadOutcomes : ReaderLine(i, o))
                     /\ UNCHANGED <<pure_vars, sim_vars, fac_vars>>)
    /\ WF_vars(PhyInit /\ SimLoopStop /\ UNCHANGED <<pure_vars, fac_vars, phy_vars>>)

----------------------------------------------------------------------------
(* Properties.                                                             *)

Actuators == {NIGHT_LED, GARAGE_DOOR, CLOTHES_SERVO, WATER_PUMP}
ActuatorStates == {ON, OFF, OPEN, CLOSED}

\* The environment field that holds the state of an actuator.
ActuatorOn(e, device) ==
    CASE device = NIGHT_LED -> e.night_led_on
      [] device = GARAGE_DOOR -> e.garage_open
      [] device = CLOTHES_SERVO -> e.clothes_servo_open
      [] device = WATER_PUMP -> e.pump_on

C2_AcceptedCommandSetsActuator ==
    [][sim_call' = "send_command"
       => \A c \in SimCommands :
          (/\ c.device_type \in Actuators
           /\ c.state \in ActuatorStates
           /\ (~env.auto_mode \/ c.manual_override)
           /\ SimSendCommand(c))
          => (/\ sim_ret' = Some(TRUE)
              /\ ActuatorOn(env', c.device_type) = (c.state \in {ON, OPEN})
              /\ \A d \in Actuators \ {c.device_type} :
                    ActuatorOn(env', d) = ActuatorOn(env, d)
              /\ env'.auto_mode = env.auto_mode)]_vars

\* What the world decides about port detection, seen from the request: no
\* port configured and no listed port carrying an Arduino keyword.
DeviceNotFound ==
    /\ fac_req.serial_port = PortNone
    /\ \A i \in DOMAIN world.ports : world.ports[i].words \cap ArduinoKeywords = {}

ReturnedSimulated ==
    /\ fac_exc = NoExc
    /\ fac_ctrl # None
    /\ fac_ctrl[1].runtime_mode = SIMULATION
    /\ fac_ctrl[1].running

\* C3: in AUTO mode, when the physical initialisation fails because no port
\* is configured and none is detected, create returns an initialised
\* simulated controller and no exception escapes.
C3_AutoFallsBackOnDeviceNotFound ==
    (fac_pc = "done" /\ fac_req.mode = AUTO /\ DeviceNotFound) => ReturnedSimulated

\* C3 witness: ports were listed, none matched, and the simulation came back.
C3_Witness ==
    /\ fac_pc = "done"
    /\ fac_req.mode = AUTO
    /\ DeviceNotFound
    /\ world.ports # <<>>
    /\ ReturnedSimulated
    /\ Len(fac_log) = 2

\* C4 as stated: in AUTO mode, whatever makes the physical initialisation
\* fail, create returns the simulated controller and no exception escapes.
C4_AutoFallsBackOnAnyFailure ==
    (/\ fac_pc = "done"
     /\ fac_req.mode = AUTO
     /\ fac_log[1].ctrl = ARDUINO
     /\ fac_log[1].exc # NoExc)
    => ReturnedSimulated

\* C5: an explicit mode never falls back.  In ARDUINO mode no simulated
\* controller is constructed, a failed initialisation leaves create with
\* that same exception and no controller, and a returned controller is the
\* physical one; in SIMULATION mode create returns the simulated controller,
\* raises nothing and never constructs the physical controller.
C5_ExplicitModeNeverFallsBack ==
    fac_pc = "done" =>
      /\ fac_req.mode = ARDUINO =>
           /\ \A i \in DOMAIN fac_log : fac_log[i].ctrl = ARDUINO
           /\ fac_log[1].exc # NoExc => (fac_exc = fac_log[1].exc /\ fac_ctrl = None)
           /\ fac_ctrl # None => fac_ctrl[1].runtime_mode = ARDUINO
      /\ fac_req.mode = SIMULATION =>
           /\ ReturnedSimulated
           /\ \A i \in DOMAIN fac_log : fac_log[i].ctrl = SIMULATION

\* C5 witness: ARDUINO mode, the port could not be opened, the error escaped.
C5_Witness ==
    /\ fac_pc = "done"
    /\ fac_req.mode = ARDUINO
    /\ fac_exc = "RuntimeError"
    /\ fac_ctrl = None
    /\ world.open = "SerialException"

\* C6: the control law returns the empty list for a snapshot with auto mode
\* off; with auto mode on it returns exactly four commands, one per
\* actuator, all with manual_override false and one common timestamp, where
\* the light is on iff the light level exceeds 500, the barrier is open iff
\* the distance is within 5..15, the cover is closed iff it rains, and the
\* pump is on iff the water level is within 1..5 and soil moisture exceeds 900.
C6_ControlLaw ==
    result.fn = "evaluate_auto_mode_logic" =>
      LET cmds == result.val[1]
          For(d) == {i \in DOMAIN cmds : cmds[i].device_type = d}
          StateOf(d) == cmds[CHOOSE i \in For(d) : TRUE].state
      IN  /\ ~arg.auto_mode => cmds = <<>>
          /\ arg.auto_mode =>
               /\ Len(cmds) = 4
               /\ \A d \in Actuators : Cardinality(For(d)) = 1
               /\ \A i \in DOMAIN cmds :
                     /\ ~cmds[i].manual_override
                     /\ cmds[i].timestamp = cmds[1].timestamp
               /\ (StateOf(NIGHT_LED) = ON) <=> (arg.ldr_value > 500)
               /\ StateOf(NIGHT_LED) \in {ON, OFF}
               /\ (StateOf(GARAGE_DOOR) = OPEN)
                    <=> (5 <= arg.garage_distance /\ arg.garage_distance <= 15)
               /\ StateOf(GARAGE_DOOR) \in {OPEN, CLOSED}
               /\ (StateOf(CLOTHES_SERVO) = CLOSED) <=> arg.rain_detected
               /\ StateOf(CLOTHES_SERVO) \in {OPEN, CLOSED}
               /\ (StateOf(WATER_PUMP) = ON)
                    <=> (/\ 1 <= arg.water_level /\ arg.water_level <= 5
                         /\ arg.soil_moisture > 900)
               /\ StateOf(WATER_PUMP) \in {ON, OFF}

\* C6 witness: auto mode on, water within range but soil at the threshold,
\* light just above its threshold: four commands came back.
C6_Witness ==
    /\ result.fn = "evaluate_auto_mode_logic"
    /\ arg.auto_mode
    /\ arg.ldr_value = 501
    /\ arg.water_level = 5
    /\ arg.soil_moisture = 900
    /\ arg.garage_distance = 15
    /\ Len(result.val[1]) = 4

\* C7: has_emergency is true exactly when the flame flag is set or the smoke
\* level is strictly above 150, whatever the other fields hold.
C7_Emergency ==
    result.fn = "has_emergency" =>
      /\ arg.flame_detected => result.val[1]
      /\ arg.smoke_level >= 151 => result.val[1]
      /\ (~arg.flame_detected /\ arg.smoke_level <= 150) => ~result.val[1]

\* C7 witness: smoke exactly 150 without flame, auto mode off, not an emergency.
C7_Witness ==
    /\ result.fn = "has_emergency"
    /\ ~arg.flame_detected
    /\ arg.smoke_level = 150
    /\ ~arg.auto_mode
    /\ result.val[1] = FALSE

Letter(d) ==
    CASE d = NIGHT_LED -> "L" [] d = GARAGE_DOOR -> "G"
      [] d = WATER_PUMP -> "P" [] d = CLOTHES_SERVO -> "C"

\* C8 as stated: for each of the four actuators and each of the states on,
\* off, open, closed, encoding yields the actuator's letter followed by 1
\* when the state is on or open and by 0 when it is off or closed; an
\* AutoModeCommand encodes to A1 when enabled and A0 when disabled.
C8_EncodingTable ==
    result.fn = "to_arduino_format" =>
      /\ (/\ arg.kind = "DeviceCommand"
          /\ arg.device_type \in Actuators
          /\ arg.state \in ActuatorStates)
         => (/\ result.exc = NoExc
             /\ result.val = Some(Letter(arg.device_type)
                                  \o (IF arg.state \in {ON, OPEN} THEN "1" ELSE "0")))
      /\ arg.kind = "AutoModeCommand"
         => (/\ result.exc = NoExc
             /\ result.val = Some(IF arg.enabled THEN "A1" ELSE "A0"))

\* C9: encoding a DeviceCommand whose device has no letter fails with an
\* error, for every state, and produces no wire string.
C9_SensorOnlyDeviceFails ==
    (/\ result.fn = "to_arduino_format"
     /\ arg.kind = "DeviceCommand"
     /\ arg.device_type \notin Actuators)
    => (result.exc = "ValueError" /\ result.val = None)

\* C9 witness: a command for the motion sensor was refused.
C9_Witness ==
    /\ result.fn = "to_arduino_format"
    /\ arg.kind = "DeviceCommand"
    /\ arg.device_type = MOTION_SENSOR
    /\ arg.state = ON
    /\ result.exc = "ValueError"

\* C10: a telemetry line that lacks at least one of the eleven fields decodes
\* to None: no snapshot comes back and no exception escapes.
C10_MissingFieldDecodesToNone ==
    (/\ result.fn = "_parse_telemetry"
     /\ \E f \in Fields : arg.choice[f] = <<>>)
    => (result.exc = NoExc /\ result.val = Some(None))

\* C10 witness: a line with every field but the humidity decoded to None.
C10_Witness ==
    /\ result.fn = "_parse_telemetry"
    /\ arg.choice["hum"] = <<>>
    /\ \A f \in Fields \ {"hum"} : arg.choice[f] # <<>>
    /\ result.exc = NoExc
    /\ result.val = Some(None)

\* C11: decoding does not depend on the order of the fields: a well-formed
\* line whose eleven field texts stand in any order decodes, without raising,
\* to a snapshot, and that snapshot is the one the same texts decode to in
\* the usual order.
C11_DecodingOrderIndependent ==
    (result.fn = "_parse_telemetry" /\ "order" \in DOMAIN arg) =>
      /\ result.exc = NoExc
      /\ result.val # Some(None)
      /\ [exc |-> result.exc, val |-> result.val]
           = parse_telemetry(JoinFrom(arg.choice, 1), result.now)

\* C11 witness: the line read backwards, last field first, decoded to a
\* snapshot that carries the light level and the pump state of its texts.
C11_Witness ==
    /\ result.fn = "_parse_telemetry"
    /\ "order" \in DOMAIN arg
    /\ arg.order = Reverse(Identity)
    /\ arg.choice.pump = lit_Pump \o lit_OFF
    /\ result.val # Some(None)
    /\ result.val[1][1].ldr_value = 650
    /\ ~result.val[1][1].pump_active

\* C12: constructing a TelemetrySnapshot raises exactly when the light level
\* is outside 0..1023, the humidity outside 0..100 or the temperature outside
\* -40..80; the ends of the three ranges are accepted, and the values of the
\* other fields never decide the outcome.
C12_ConstructionValidates ==
    result.fn = "TelemetrySnapshot" =>
      LET f == arg.fields
          outside == \/ f.ldr_value < 0 \/ f.ldr_value > 1023
                     \/ f.humidity < 0 \/ f.humidity > 10000
                     \/ f.temperature < -4000 \/ f.temperature > 8000
      IN  /\ outside => (result.exc = "ValueError" /\ result.val = None)
          /\ ~outside => /\ result.exc = NoExc
                         /\ result.val = Some([kind |-> "TelemetrySnapshot"] @@ f)

\* C12 witness: light 1023, humidity 100 and temperature -40 were accepted
\* together with a negative distance, water level and smoke level.
C12_Witness ==
    /\ result.fn = "TelemetrySnapshot"
    /\ arg.fields.ldr_value = 1023
    /\ arg.fields.humidity = 10000
    /\ arg.fields.temperature = -4000
    /\ arg.fields.garage_distance < 0
    /\ arg.fields.water_level < 0
    /\ arg.fields.smoke_level < 0
    /\ result.exc = NoExc

\* C13: the physical health_check returns True exactly when the link is open
\* and a cached snapshot exists whose age is below 5 seconds; with the link
\* never opened or closed, with no snapshot yet, or with a snapshot 5 seconds
\* old or older, it returns False.  It never raises.
C13_HealthCheck ==
    [][PhyHealthCheck =>
         /\ phy_ret'.exc = NoExc
         /\ phy_ret'.val \in {Some(TRUE), Some(FALSE)}
         /\ (phy_ret'.val = Some(TRUE))
              <=> (/\ phy_ctrl.serial_open
                   /\ phy_latest # None
                   /\ phy_clock - phy_latest[1].timestamp < 5)]_vars

\* C13 witness: a health check answered True on an open link whose cached
\* snapshot is 4 seconds old.
C13_Witness ==
    /\ phy_ret.op = "health_check"
    /\ phy_ret.val = Some(TRUE)
    /\ phy_ctrl.serial_open
    /\ phy_latest # None
    /\ phy_clock - phy_latest[1].timestamp = 4

\* C14: the physical get_telemetry returns what the reader loop decoded last:
\* none until a first line has been decoded, afterwards the snapshot of the
\* most recent line that decoded.  Every step leaves the slot as it was or
\* puts the newly decoded snapshot in it, and a slot that holds a snapshot
\* never goes back to none.
C14_GetTelemetryLastDecoded ==
    [][/\ PhyGetTelemetry =>
            (phy_ret'.exc = NoExc /\ phy_ret'.telemetry = Some(phy_hist.decoded))
       /\ phy_latest' = phy_hist'.decoded
       /\ phy_latest' \in {phy_latest, phy_hist'.decoded}
       /\ phy_latest # None => phy_latest' # None]_vars

\* C14 witness: get_telemetry returned the snapshot of the second kind of
\* line (no motion, pump off), decoded after the clock had moved.
C14_Witness ==
    /\ phy_ret.op = "get_telemetry"
    /\ phy_ret.telemetry # Some(None)
    /\ phy_ret.telemetry = Some(phy_hist.decoded)
    /\ ~phy_ret.telemetry[1][1].motion_detected
    /\ phy_ret.telemetry[1][1].timestamp > 0
    /\ phy_reader[1] = "reading"

\* C15: shutdown is idempotent on both backends.  A shutdown raises nothing
\* and leaves the running flag cleared (and, on the physical backend, the
\* link closed), whether the controller was never initialised, is running or
\* is shut down; a shutdown that follows a shutdown changes nothing.
C15_ShutdownIdempotent ==
    [][/\ PhyShutdown =>
            (phy_ret'.exc = NoExc /\ ~phy_ctrl'.running /\ ~phy_ctrl'.serial_open)
       /\ (PhyShutdown /\ phy_ret.op = "shutdown") =>
            (phy_ctrl' = phy_ctrl /\ phy_latest' = phy_latest)
       /\ SimShutdown => ~sim_running'
       /\ (SimShutdown /\ sim_call = "shutdown") =>
            (sim_running' = sim_running /\ env' = env /\ sim_loop' = sim_loop)]_vars

\* C15 witness: both controllers were initialised and then shut down, and
\* their loops have ended: the state a repeated shutdown must leave alone.
C15_Witness ==
    /\ phy_ret.op = "shutdown"
    /\ phy_ctrl.port # PortNone
    /\ ~phy_ctrl.running /\ ~phy_ctrl.serial_open
    /\ phy_ctrl.loops = 0
    /\ sim_call = "shutdown"
    /\ ~sim_running
    /\ sim_ticks > 0

C17_SetAutoModeRetries ==
    [][(/\ phy_call.op = "set_auto_mode"
        /\ phy_call.pc = "writing"
        /\ PhyAutoWriteDone("SerialException")
        /\ phy_ret'.val = Some(FALSE))
       => phy_call.attempt >= MaxAttempts]_vars

\* C18 as stated: send_command and set_auto_mode always complete by
\* returning a boolean, and no error leaves the controller.
C18_CommandsReturnBoolean ==
    phy_ret.op \in {"send_command", "set_auto_mode"} =>
      (phy_ret.exc = NoExc /\ phy_ret.val \in {Some(TRUE), Some(FALSE)})

\* C19 as stated: every read and every replacement of the cached snapshot is
\* made while the telemetry lock is held.
C19_SlotAccessUnderLock ==
    phy_hist.access.locked

\* C20 as stated: once set_auto_mode has succeeded, the auto-mode flag of
\* every snapshot the reader loop decodes and caches is the state commanded
\* last.
C20_DecodedAutoModeIsLastCommanded ==
    [][(/\ phy_hist.auto # None
        /\ phy_hist'.decoded # None
        /\ \E i \in 1..MaxReaders : phy_reader[i] = "reading" /\ phy_reader'[i] = "top"
        /\ phy_hist'.access.op = "replace")
       => phy_latest'[1].auto_mode = phy_hist.auto[1]]_vars

\* The state an actuator command asks for: on/open, or off/closed.
Active(state) == state \in {ON, OPEN}

\* C21: in the simulated backend, immediately after every loop iteration
\* taken with auto mode enabled, each of the four actuator states of the
\* environment equals the state evaluate_auto_mode_logic returns for the
\* snapshot get_telemetry builds from that same environment.
C21_TickParity ==
    (sim_call = "tick" /\ env.auto_mode)
    => \A now \in Times :
          /\ get_telemetry(env, now) # None
          /\ \A k \in 1..4 :
                Active(evaluate_auto_mode_logic(get_telemetry(env, now)[1], now)[k].state)
                = ActuatorOn(env,
                    evaluate_auto_mode_logic(get_telemetry(env, now)[1], now)[k].device_type)

\* C22: the runtime_mode a controller reports never changes over initialize,
\* commands, loop iterations and shutdown (ARDUINO for the physical
\* controller, SIMULATION for the simulated one), and every snapshot that
\* get_telemetry returns carries that controller's runtime_mode.
C22_RuntimeModeFixed ==
    /\ phy_ctrl.runtime_mode = ARDUINO
    /\ SerialHardwareController(PortNone, 9600).runtime_mode = ARDUINO
    /\ SimulatedHardwareController.runtime_mode = SIMULATION
    /\ (phy_ret.op = "get_telemetry" /\ phy_ret.telemetry # Some(None))
       => phy_ret.telemetry[1][1].runtime_mode = phy_ctrl.runtime_mode
    /\ (sim_call = "get_telemetry" /\ sim_ret # Some(None))
       => sim_ret[1][1].runtime_mode = SimulatedHardwareController.runtime_mode

\* C22 witness: after a shutdown, get_telemetry of the physical controller
\* has returned a snapshot the reader loop decoded.
C22_Witness ==
    /\ phy_ret.op = "get_telemetry"
    /\ phy_ret.telemetry # Some(None)
    /\ phy_hist.shutdown
    /\ ~phy_ctrl.running

\* C23: set_auto_mode of the simulated controller always returns True and
\* leaves the auto-mode flag equal to the command's enabled value, every
\* actuator state and sensor quantity as it was, so that the same command
\* again changes nothing; a get_telemetry that follows reports that flag.
C23_SetAutoModeFrame ==
    /\ [][sim_call' = "set_auto_mode"
          => \A c \in SimAutoCommands :
                SimSetAutoMode(c)
                => /\ sim_ret' = Some(TRUE)
                   /\ env' = [env EXCEPT !.auto_mode = c.enabled]
                   /\ set_auto_mode(env', c).env = env']_vars
    /\ [][sim_call' = "get_telemetry"
          => /\ sim_ret' # Some(None)
             /\ sim_ret'[1][1].auto_mode = env.auto_mode
             /\ env' = env]_vars

\* C23 witness: after a loop iteration, auto mode was switched off and
\* get_telemetry reports it off.
C23_Witness ==
    /\ sim_call = "get_telemetry"
    /\ sim_ret # Some(None)
    /\ ~sim_ret[1][1].auto_mode
    /\ sim_ticks > 0

C30_ManualTickKeepsActuators ==
    /\ [][(sim_call' = "tick" /\ ~env.auto_mode)
          => \A a \in Actuators : ActuatorOn(env', a) = ActuatorOn(env, a)]_vars
    /\ [][(\E a \in Actuators : ActuatorOn(env', a) # ActuatorOn(env, a))
          => \/ sim_call' = "send_command"
             \/ (sim_call' = "tick" /\ env.auto_mode)]_vars

\* C30 witness: with auto mode disabled, commands switched the light and the
\* pump on and closed the cover, and a loop iteration has just been taken.
C30_Witness ==
    /\ sim_call = "tick"
    /\ ~env.auto_mode
    /\ env.night_led_on
    /\ env.pump_on
    /\ ~env.clothes_servo_open

\* C29: in every state the simulated environment reaches through loop
\* iterations, send_command and set_auto_mode, light is within 0..1023,
\* humidity within 0..100, temperature within -10..40, water level within
\* 0..20 and soil moisture within 0..1023, so that get_telemetry passes the
\* snapshot's validation and never returns None.
C29_EnvironmentInRange ==
    /\ 0 <= env.ambient_light /\ env.ambient_light <= 102300
    /\ 0 <= env.humidity /\ env.humidity <= 10000
    /\ -1000 <= env.temperature /\ env.temperature <= 4000
    /\ 0 <= env.water_level /\ env.water_level <= 2000
    /\ 0 <= env.soil_moisture /\ env.soil_moisture <= 102300
    /\ \A now \in Times : get_telemetry(env, now) # None
    /\ sim_call = "get_telemetry" => sim_ret # Some(None)

\* C29 witness: get_telemetry has returned a snapshot after a loop iteration
\* that left light, humidity and temperature at their upper clamps and,
\* with the pump switched on by a command, water and soil at zero.
C29_Witness ==
    /\ sim_call = "get_telemetry"
    /\ sim_ret # Some(None)
    /\ sim_ticks > 0
    /\ sim_ret[1][1].ldr_value = 1023
    /\ sim_ret[1][1].humidity = 10000
    /\ sim_ret[1][1].temperature = 4000
    /\ env.pump_on
    /\ env.water_level = 0
    /\ env.soil_moisture = 0

\* The reader tasks that have not ended.
ReadersAlive == {i \in DOMAIN phy_reader : phy_reader[i] # "off"}

\* C25: the reader loop of the physical controller never ends by itself.
\* Whatever readline hands over or raises (nothing, a line that does not
\* decode, an I/O error), the loop is back at its "while" afterwards, from
\* where, the running flag set, it only goes on to the next read; a reader
\* task ends only with the running flag cleared, after a shutdown.
C25_ReaderNeverEndsItself ==
    /\ [][\A i \in DOMAIN phy_reader :
            phy_reader[i] = "reading" => phy_reader'[i] \in {"reading", "top"}]_vars
    /\ [][\A i \in DOMAIN phy_reader :
            (phy_reader[i] = "top" /\ phy_ctrl.running /\ phy_reader'[i] # "top")
            => phy_reader'[i] = "reading"]_vars
    /\ [][\A i \in DOMAIN phy_reader :
            (phy_reader[i] # "off" /\ phy_reader'[i] = "off")
            => (phy_hist.shutdown /\ ~phy_ctrl.running)]_vars

\* C25 witness: no shutdown so far, the last readline raised, a line before
\* it had been decoded, and the loop is reading again.
C25_Witness ==
    /\ ~phy_hist.shutdown
    /\ phy_hist.read = "SerialException"
    /\ phy_hist.decoded # None
    /\ phy_reader[1] = "reading"

\* C28: in the physical controller, once shutdown has returned (and no
\* initialize has set the running flag again) the cached snapshot is never
\* replaced: a readline that was in flight when shutdown was called does not
\* update the slot afterwards.
C28_NoCacheUpdateAfterShutdown ==
    [][(phy_hist.shutdown /\ ~phy_ctrl.running) => phy_latest' = phy_latest]_vars

\* C26: shutdown is cooperative on both backends.  Once shutdown was the
\* last call on the physical controller, every reader task eventually ends
\* (unless an initialize follows); once the running flag of the simulated
\* controller is cleared, every loop task eventually ends (unless an
\* initialize sets it again).  A loop that finds the flag cleared takes no
\* further iteration: no read is started and no tick is taken.
C26_ShutdownStopsLoops ==
    /\ (phy_ret.op = "shutdown") ~> (ReadersAlive = {} \/ phy_ret.op # "shutdown")
    /\ (~sim_running) ~> (sim_loop = 0 \/ sim_running)
    /\ [][\A i \in DOMAIN phy_reader :
            (phy_reader[i] = "top" /\ ~phy_ctrl.running)
            => phy_reader'[i] \in {"top", "off"}]_vars
    /\ [][sim_call' = "tick" => (sim_running /\ sim_loop' = sim_loop)]_vars

\* C26 witness: the physical controller was shut down while a readline was
\* pending; the read has since failed and every reader task has ended.
C26_Witness ==
    /\ phy_ret.op = "shutdown"
    /\ phy_hist.decoded # None
    /\ phy_hist.read = "SerialException"
    /\ phy_ctrl.loops = 0
    /\ ReadersAlive = {}

\* C27: at most one background loop is alive per controller, after any
\* sequence of initialize and shutdown calls: never more than one reader task
\* of the physical controller nor more than one loop task of the simulated.
C27_AtMostOneLoop ==
    /\ Cardinality(ReadersAlive) <= 1
    /\ sim_loop <= 1

----------------------------------------------------------------------------
\* C31 as stated: in the simulated backend, when a send_command with
\* manual_override for an actuator has returned True while auto mode is
\* enabled, the loop iteration that follows it leaves that actuator in the
\* state the command gave it.
C31_OverrideSurvivesTick ==
    [][(/\ sim_call = "send_command"
        /\ sim_ret = Some(TRUE)
        /\ env.auto_mode
        /\ arg.manual_override
        /\ arg.device_type \in Actuators
        /\ sim_call' = "tick")
       => ActuatorOn(env', arg.device_type) = ActuatorOn(env, arg.device_type)]_vars

----------------------------------------------------------------------------
\* The condition under which the control law runs the pump.
PumpCondition(e) ==
    /\ 100 <= e.water_level
    /\ e.water_level <= 500
    /\ e.soil_moisture > 90000

\* C32: in the simulated backend with auto mode left enabled and the loop
\* iterating with positive elapsed time, the pump does not stay on for ever:
\* whenever it is on, a later iteration leaves it off; and after every
\* iteration a pump that is on has water level within 1..5 and soil
\* moisture above 900.
C32_PumpNeverStaysOn ==
    /\ (env.pump_on /\ env.auto_mode) ~> ~env.pump_on
    /\ []((sim_call = "tick" /\ env.auto_mode /\ env.pump_on)
          => PumpCondition(env))

\* C32 witness: the pump was on during an update (soil moisture has fallen
\* below the value of construction, which only a pumping update does) and
\* the iteration has left it off.
C32_Witness ==
    /\ sim_call = "tick"
    /\ env.auto_mode
    /\ ~env.pump_on
    /\ env.soil_moisture < SimulatedEnvironment.soil_moisture

----------------------------------------------------------------------------
----------------------------------------------------------------------------
\* What readline may hand over that carries all eleven fields.
CompleteOutcomes ==
    {o \in ReadOutcomes :
        /\ o.kind = "line"
        /\ \A f \in Fields : Matches(strip(decode_ignore(o.bytes)))[f].found}

\* C34: in the physical backend a line that does not decode leaves the
\* cached snapshot as it was; the cache changes only in a reader iteration,
\* to the snapshot decoded from a line that carries all eleven fields; and
\* send_command, set_auto_mode, health_check, get_telemetry, initialize and
\* shutdown leave it alone.
C34_CacheChangesOnlyByDecodedLine ==
    /\ [][(/\ \E i \in DOMAIN phy_reader :
                  phy_reader[i] = "reading" /\ phy_reader'[i] # "reading"
           /\ phy_hist'.read # "snapshot")
          => phy_latest' = phy_latest]_vars
    /\ [][phy_latest' # phy_latest
          => /\ \E i \in DOMAIN phy_reader :
                   phy_reader[i] = "reading" /\ phy_reader'[i] = "top"
             /\ phy_latest' # None
             /\ \E r \in DecodedAt :
                   /\ r.o \in CompleteOutcomes
                   /\ r.now = phy_clock
                   /\ r.telemetry = phy_latest'
             /\ phy_call' = phy_call
             /\ phy_ret' = phy_ret
             /\ phy_ctrl' = phy_ctrl]_vars

\* C34 witness: the cache holds a snapshot, a send_command has returned True
\* after it, and the reader has since read a line that did not decode.
C34_Witness ==
    /\ phy_latest # None
    /\ phy_hist.read = "line"
    /\ phy_ret.op = "send_command"
    /\ phy_ret.val = Some(TRUE)
    /\ phy_ret.attempts = MaxAttempts

----------------------------------------------------------------------------
\* A line whose choice of texts has all eleven fields, each of a form its
\* type parses: of the texts of FieldTextSeq only the second temperature
\* ("1.2.3") is no float.
AllFieldsParse(c) ==
    /\ \A f \in Fields : c[f] # <<>>
    /\ c.temp = FieldTextSeq("temp")[1]

\* The values the texts of a line stand for, read off the texts themselves.
ValuesOf(c) ==
    [ldr_value |-> IF c.ldr = FieldTextSeq("ldr")[1] THEN 650 ELSE 2000,
     garage_distance |-> 20,
     motion_detected |-> (c.motion = FieldTextSeq("motion")[1]),
     rain_detected |-> (c.rain = FieldTextSeq("rain")[1]),
     water_level |-> 3,
     soil_moisture |-> 750,
     pump_active |-> (c.pump = FieldTextSeq("pump")[1]),
     flame_detected |-> (c.flame = FieldTextSeq("flame")[1]),
     smoke_level |-> 45,
     temperature |-> 2450,
     humidity |-> 5500]

\* C35 as stated: a line that has all eleven fields, each parsing as its
\* type, always decodes to a snapshot that carries exactly the parsed
\* values; and decoding gives no result only when a field is missing or
\* does not parse.
C35_CompleteLineAlwaysDecodes ==
    result.fn = "_parse_telemetry" =>
      /\ result.exc = NoExc
      /\ AllFieldsParse(arg.choice) =>
            /\ result.val # Some(None)
            /\ \A k \in DOMAIN ValuesOf(arg.choice) :
                  result.val[1][1][k] = ValuesOf(arg.choice)[k]
      /\ result.val = Some(None) => ~AllFieldsParse(arg.choice)

----------------------------------------------------------------------------
\* C36 as stated: whenever the physical initialize fails (no port found, the
\* link does not open, or settling and flushing raise), it leaves the
\* controller with no reader loop started, the running flag false and no
\* open link; and it starts a reader loop only after the link was opened and
\* flushed.
C36_InitializeAllOrNothing ==
    [][\A w \in PhyWorlds :
          PhyInitialize(w) =>
            /\ serial_initialize(phy_ctrl, w).exc # NoExc
                  => /\ ~phy_ctrl'.serial_open
                     /\ ~phy_ctrl'.running
                     /\ phy_reader' = phy_reader
            /\ phy_reader' # phy_reader
                  => (w.open = "ok" /\ w.flush = "ok" /\ phy_ctrl'.serial_open)]_vars

----------------------------------------------------------------------------
\* C37: in the physical backend, a send_command or a set_auto_mode called
\* while the link is not open (before initialize, after an initialize that
\* opened no link, after shutdown) returns False at once: nothing is handed
\* to the executor, nothing is written and no further attempt follows.
C37_ClosedLinkReturnsFalse ==
    /\ [][\A c \in PhyCommands :
            (PhySendCommand(c) /\ ~phy_ctrl.serial_open)
            => (/\ phy_call' = NoCall
                /\ phy_ret' = Ret("send_command", NoExc, Some(FALSE), 0, 0))]_vars
    /\ [][\A c \in AutoModeCommands :
            (PhySetAutoMode(c) /\ ~phy_ctrl.serial_open)
            => (/\ phy_call' = NoCall
                /\ phy_ret' = Ret("set_auto_mode", NoExc, Some(FALSE), 0, 0))]_vars

\* C37 witness: after an initialize that succeeded and a shutdown, a
\* send_command has returned False without a write.
C37_Witness ==
    /\ phy_hist.shutdown
    /\ phy_ctrl.port # PortNone
    /\ ~phy_ctrl.serial_open
    /\ phy_call = NoCall
    /\ phy_ret = Ret("send_command", NoExc, Some(FALSE), 0, 0)

----------------------------------------------------------------------------
\* The command strings of the wire protocol.
WireCommands ==
    {l \o b : l \in {"L", "G", "P", "C", "A"}, b \in {"0", "1"}}

\* The strings that encode a call's own command: the letter of its device
\* (A for the auto-mode command) followed by 0 or 1.
OwnEncodings(call) ==
    IF call.op = "set_auto_mode"
    THEN {"A" \o (IF call.command.enabled THEN "1" ELSE "0")}
    ELSE {Letter(call.command.device_type) \o b : b \in {"0", "1"}}

\* C38: in the physical backend every write is one two-character command (a
\* letter of L, G, P, C, A followed by 0 or 1) and a newline, followed by a
\* flush; the command written is the encoding of the call's own command and
\* never stands for a sensor-only device; and a call that returns True has
\* written its command at least once.
C38_WireFormat ==
    /\ [](phy_call.pc = "writing" =>
            /\ send_raw(phy_call.wire)
                 \in {[written |-> w \o "\n", flushed |-> TRUE] : w \in WireCommands}
            /\ phy_call.op = "send_command" => phy_call.command.device_type \in Actuators
            /\ phy_call.wire \in OwnEncodings(phy_call)
            /\ phy_call.writes >= 1)
    /\ [][(phy_call' = NoCall /\ phy_call # NoCall /\ phy_ret'.val = Some(TRUE))
          => (/\ phy_call.pc = "writing"
              /\ phy_ret'.op = phy_call.op
              /\ phy_ret'.writes = phy_call.writes)]_vars
    /\ []((phy_ret.op \in {"send_command", "set_auto_mode"} /\ phy_ret.val = Some(TRUE))
          => phy_ret.writes >= 1)

\* C38 witness: a send_command has returned True on its third write, and a
\* send_command that opens the garage door has its line in the executor.
C38_Witness ==
    /\ phy_ret.op = "send_command"
    /\ phy_ret.val = Some(TRUE)
    /\ phy_ret.writes = MaxAttempts
    /\ phy_call.op = "send_command"
    /\ phy_call.pc = "writing"
    /\ phy_call.command.device_type = GARAGE_DOOR
    /\ phy_call.wire = "G1"

----------------------------------------------------------------------------
\* C39 as stated: on both backends ManualControlUseCase blocks a command
\* without override only while auto mode is enabled: once a
\* set_auto_mode(enabled=False) has succeeded (and no later one has enabled
\* it again), a manual command without override is forwarded to
\* send_command and not blocked.
C39_ManualCommandForwardedAfterDisable ==
    /\ [][\A c \in ManualCommands : \A now \in Times :
            (SimManualControl(c, now) /\ ~c.manual_override /\ ~env.auto_mode)
            => (sim_call' = "send_command" /\ sim_ret' = Some(TRUE))]_vars
    /\ [][\A c \in ManualCommands :
            (PhyManualControl(c) /\ ~c.manual_override /\ phy_hist.auto = Some(FALSE))
            => ~(phy_call' = NoCall /\ phy_ret'.op = "manual_control")]_vars

----------------------------------------------------------------------------
\* C40 as stated: when the telemetry read at the start of
\* VoiceCommandUseCase.execute reports an emergency (flame, or smoke above
\* 150), that execution does not disable auto mode, whatever the intent
\* parser returns; and when check_safety reports a command list unsafe,
\* none of its commands is sent.
C40_VoiceNeverDisablesAutoInEmergency ==
    /\ [][\A p \in ParseResults :
            (/\ SimVoiceParsed(p)
             /\ arg.current_state # None
             /\ has_emergency(arg.current_state[1]))
            => ~(env.auto_mode /\ ~env'.auto_mode)]_vars
    /\ [][\A p \in ParseResults :
            (/\ SimVoiceParsed(p)
             /\ p.kind = "commands"
             /\ arg.current_state # None
             /\ ~check_safety(p.commands, arg.current_state[1]))
            => (env' = env /\ result'.actions = 0)]_vars

====
